---- MODULE Spec2Model ----
(***************************************************************************)
(* A model of flopy.utils.reference.SpatialReference: one frame object,    *)
(* its constructor, its intercepted attribute assignments, its lazily      *)
(* cached derived grids and its transform pipeline.                        *)
(*                                                                         *)
(* Numbers.  The program computes in IEEE doubles; the model computes in   *)
(* exact rationals <<numerator, denominator>> (denominator > 0, lowest     *)
(* terms), so that two numbers are equal exactly when their tuples are.    *)
(* Rotations are restricted to multiples of 90 degrees, where cos and sin  *)
(* are exactly 0, 1 or -1 (floating-point rounding of cos(pi/2) is not     *)
(* modelled).  Python's None is the empty tuple, a present value x is the  *)
(* one-element tuple <<x>>.                                                *)
(***************************************************************************)
EXTENDS Integers, Sequences, FiniteSets, TLC

(***************************************************************************)
(* Bounds of the model.                                                    *)
(***************************************************************************)
\* the longest spacing vector (delr, delc) a frame is given
MaxLen == 2
\* operations performed on a frame after its construction
MaxOps == 2

(***************************************************************************)
(* Exact rational arithmetic standing for Python float arithmetic.         *)
(***************************************************************************)
Abs(n) == IF n < 0 THEN -n ELSE n

RECURSIVE Gcd(_, _)
Gcd(a, b) == IF b = 0 THEN a ELSE Gcd(b, a % b)

\* the rational n/d in lowest terms with a positive denominator
Q(n, d) ==
    LET sgn == IF d < 0 THEN -1 ELSE 1
        g == Gcd(Abs(n), Abs(d))
    IN  <<(sgn * n) \div g, (sgn * d) \div g>>

\* float(value) of an integer
I(n) == <<n, 1>>

Add(a, b) == Q(a[1] * b[2] + b[1] * a[2], a[2] * b[2])
Sub(a, b) == Q(a[1] * b[2] - b[1] * a[2], a[2] * b[2])
Mul(a, b) == Q(a[1] * b[1], a[2] * b[2])
Lt(a, b) == a[1] * b[2] < b[1] * a[2]
Min2(a, b) == IF Lt(b, a) THEN b ELSE a
Max2(a, b) == IF Lt(a, b) THEN b ELSE a
\* Python's min(a, b, c, d) and max(a, b, c, d)
Min4(a, b, c, d) == Min2(Min2(a, b), Min2(c, d))
Max4(a, b, c, d) == Max2(Max2(a, b), Max2(c, d))

\* np.cos and np.sin at an angle given in degrees, a multiple of 90
CosDeg(a) ==
    CASE a % 360 = 0 -> I(1)
      [] a % 360 = 90 -> I(0)
      [] a % 360 = 180 -> I(-1)
      [] a % 360 = 270 -> I(0)

SinDeg(a) ==
    CASE a % 360 = 0 -> I(0)
      [] a % 360 = 90 -> I(1)
      [] a % 360 = 180 -> I(0)
      [] a % 360 = 270 -> I(-1)

(***************************************************************************)
(* None and present values.                                                *)
(***************************************************************************)
None == <<>>
Some(x) == <<x>>
Val(o) == o[1]
\* "v if v is not None else 0."
OrZero(o) == IF o = None THEN I(0) ELSE Val(o)

(***************************************************************************)
(* numpy helpers on spacing vectors (sequences of integers).               *)
(***************************************************************************)
RECURSIVE Sum(_)
\* np.add.reduce / ndarray.sum
Sum(v) == IF Len(v) = 0 THEN 0 ELSE Sum(SubSeq(v, 1, Len(v) - 1)) + v[Len(v)]

\* np.add.accumulate
Accumulate(v) == [i \in 1..Len(v) |-> Sum(SubSeq(v, 1, i))]

(***************************************************************************)
(* Strings that the program searches (the CRS text) are sequences of       *)
(* one-character strings, so that "a in b" is a real substring search.     *)
(***************************************************************************)
\* Python's "sub in s"
Contains(sub, s) ==
    \E i \in 0..(Len(s) - Len(sub)) : SubSeq(s, i + 1, i + Len(sub)) = sub

UpperChar(c) ==
    CASE c = "e" -> "E" [] c = "p" -> "P" [] c = "s" -> "S" [] c = "g" -> "G"
      [] OTHER -> c
\* str.upper(), on the letters the program looks for afterwards (E, P, S, G)
Upper(s) == [i \in 1..Len(s) |-> UpperChar(s[i])]

Str_EPSG == <<"E", "P", "S", "G">>
Str_units_m == <<"u", "n", "i", "t", "s", "=", "m">>
Str_units_ft == <<"u", "n", "i", "t", "s", "=", "f", "t">>
Str_units_usft == <<"u", "n", "i", "t", "s", "=", "u", "s", "-", "f", "t">>
Str_to_meters ==
    <<"t", "o", "_", "m", "e", "t", "e", "r", "s", ":", "0", ".", "3", "0", "4", "8">>

\* str.lower() of a unit label
Lower(u) ==
    CASE u = "FEET" -> "feet" [] u = "Feet" -> "feet"
      [] u = "METERS" -> "meters" [] u = "Meters" -> "meters"
      [] OTHER -> u

(***************************************************************************)
(* The frame object.  A frame is a record of the instance attributes; the  *)
(* attributes of a frame whose __init__ has not run are the class          *)
(* attributes.                                                             *)
(***************************************************************************)
lenuni_values == [undefined |-> 0, feet |-> 1, meters |-> 2, centimeters |-> 3]
lenuni_text == [v \in 0..3 |->
    CASE v = 0 -> "undefined" [] v = 1 -> "feet" [] v = 2 -> "meters"
      [] v = 3 -> "centimeters"]
supported_units == {"feet", "meters"}

ClassAttributes ==
    [delr |-> <<>>, delc |-> <<>>, lenuni |-> 2,
     _proj4_str |-> None, _epsg |-> None, _units |-> None,
     _length_multiplier |-> None,
     xul |-> None, yul |-> None, xll |-> None, yll |-> None,
     rotation |-> 0, origin_loc |-> "ul",
     _xgrid |-> None, _ygrid |-> None, _xcentergrid |-> None,
     _ycentergrid |-> None, _vertices |-> None]

\* _reset: empty the five caches
_reset(s) ==
    [s EXCEPT !._xgrid = None, !._ygrid = None, !._ycentergrid = None,
              !._xcentergrid = None, !._vertices = None]

nrow(s) == Len(s.delc)
ncol(s) == Len(s.delr)

\* the proj4_str property, for CRS text that names no EPSG code
proj4_str(s) == s._proj4_str

\* _parse_units_from_proj4: None when there is no CRS text (the attribute
\* error is swallowed) and when no unit marker is found; text naming an EPSG
\* code goes to an external library and is left out of the inputs
_parse_units_from_proj4(s) ==
    IF proj4_str(s) = None THEN None
    ELSE IF Contains(Str_EPSG, Upper(Val(proj4_str(s)))) THEN None
    ELSE LET proj_str == Val(proj4_str(s))
         IN  IF Contains(Str_units_m, proj_str) THEN Some("meters")
             ELSE IF \/ Contains(Str_units_ft, proj_str)
                     \/ Contains(Str_units_usft, proj_str)
                     \/ Contains(Str_to_meters, proj_str)
                  THEN Some("feet")
                  ELSE None

\* the unit of the CRS text taken before the explicit label
units_resolved_crs_first(s) ==
    LET u == IF _parse_units_from_proj4(s) # None
             THEN _parse_units_from_proj4(s)
             ELSE IF s._units # None THEN Some(Lower(Val(s._units)))
             ELSE None
    IN  IF u = None THEN "meters" ELSE Val(u)

\* the units property before its assertion
units_resolved(s) ==
    LET u == IF s._units # None THEN Some(Lower(Val(s._units)))
             ELSE _parse_units_from_proj4(s)
    IN  IF u = None THEN "meters" ELSE Val(u)

\* "" when the units property returns, else the exception it raises
units_raises(s) ==
    IF units_resolved(s) \in supported_units THEN "" ELSE "AssertionError"

\* the units property
units(s) == units_resolved(s)

model_length_units(s) == lenuni_text[s.lenuni]

\* "" when the length_multiplier property returns, else the exception
length_multiplier_raises(s) ==
    IF s._length_multiplier # None THEN ""
    ELSE IF s.lenuni \notin DOMAIN lenuni_text THEN "KeyError"
    ELSE IF model_length_units(s) \in {"feet", "meters", "centimeters"}
         THEN units_raises(s)
         ELSE ""

\* the table with the two centimeter entries exchanged
lm_table_cm_swapped(mlu, u) ==
    IF mlu = "feet"
    THEN IF u = "meters" THEN Some(Q(3048, 10000))
         ELSE IF u = "feet" THEN Some(I(1))
         ELSE None
    ELSE IF mlu = "meters"
    THEN IF u = "feet" THEN Some(Q(10000, 3048))
         ELSE IF u = "meters" THEN Some(I(1))
         ELSE None
    ELSE IF mlu = "centimeters"
    THEN IF u = "meters" THEN Some(Q(100, 3048))
         ELSE IF u = "feet" THEN Some(Q(1, 100))
         ELSE None
    ELSE Some(I(1))

\* the conversion table of length_multiplier, for model units mlu and
\* reference units u: None where no branch assigns lm
lm_table(mlu, u) ==
    IF mlu = "feet"
    THEN IF u = "meters" THEN Some(Q(3048, 10000))
         ELSE IF u = "feet" THEN Some(I(1))
         ELSE None
    ELSE IF mlu = "meters"
    THEN IF u = "feet" THEN Some(Q(10000, 3048))
         ELSE IF u = "meters" THEN Some(I(1))
         ELSE None
    ELSE IF mlu = "centimeters"
    THEN IF u = "meters" THEN Some(Q(1, 100))
         ELSE IF u = "feet" THEN Some(Q(100, 3048))
         ELSE None
    ELSE Some(I(1))

\* the length_multiplier property: None or the multiplier
length_multiplier(s) ==
    IF s._length_multiplier # None THEN s._length_multiplier
    ELSE lm_table(model_length_units(s), units(s))

(***************************************************************************)
(* Model-space edge and center arrays.                                     *)
(***************************************************************************)
Half == Q(1, 2)

get_xcenter_array(s) ==
    [j \in 1..ncol(s) |->
        Sub(I(Accumulate(s.delr)[j]), Mul(Half, I(s.delr[j])))]

\* row centers measured from the top edge, not inverted
get_ycenter_array_not_inverted(s) ==
    [i \in 1..nrow(s) |->
        Sub(I(Accumulate(s.delc)[i]), Mul(Half, I(s.delc[i])))]

get_ycenter_array(s) ==
    LET Ly == Sum(s.delc)
    IN  [i \in 1..nrow(s) |->
            Sub(I(Ly), Sub(I(Accumulate(s.delc)[i]), Mul(Half, I(s.delc[i]))))]

get_xedge_array(s) ==
    <<I(0)>> \o [j \in 1..ncol(s) |-> I(Accumulate(s.delr)[j])]

get_yedge_array(s) ==
    LET length_y == Sum(s.delc)
    IN  <<I(length_y)>> \o
        [i \in 1..nrow(s) |-> I(length_y - Accumulate(s.delc)[i])]

xedge(s) == get_xedge_array(s)
yedge(s) == get_yedge_array(s)
xcenter(s) == get_xcenter_array(s)
ycenter(s) == get_ycenter_array(s)

\* the theta property, in degrees: -rotation (* pi / 180)
theta(s) == -s.rotation

(***************************************************************************)
(* Calls.  A method is an operator that gives the outcome of the call as   *)
(* a record: s, the frame the call leaves behind; val, what it returns;    *)
(* exc, "" when it returns and the name of the exception when it raises    *)
(* (s is then the frame as the raise left it).                             *)
(***************************************************************************)
Ret(s, val) == [s |-> s, val |-> val, exc |-> ""]
Raise(s, e) == [s |-> s, val |-> None, exc |-> e]

\* a store that leaves the caches as they are
setattr_corner_keeps_caches(s, key, value) ==
    [s EXCEPT ![key] = Some(value)]

\* __setattr__ for the keys xul, yul, xll, yll: store float(value), _reset()
setattr_corner(s, key, value) ==
    _reset([s EXCEPT ![key] = Some(value)])

\* the upper-left corner placed below the lower-left one
derive_ul_downwards(s, h, lm) ==
    setattr_corner(
        setattr_corner(s, "xul",
            Sub(Val(s.xll), Mul(Mul(SinDeg(theta(s)), h), lm))),
        "yul", Sub(Val(s.yll), Mul(Mul(CosDeg(theta(s)), h), lm)))

\* set_origin, origin_loc = 'll', after xll and yll are stored: xul and yul
\* from the height h = yedge[0] and the multiplier lm
derive_ul(s, h, lm) ==
    setattr_corner(
        setattr_corner(s, "xul",
            Add(Val(s.xll), Mul(Mul(SinDeg(theta(s)), h), lm))),
        "yul", Add(Val(s.yll), Mul(Mul(CosDeg(theta(s)), h), lm)))

\* set_origin, origin_loc = 'ul', after xul and yul are stored
derive_ll(s, h, lm) ==
    setattr_corner(
        setattr_corner(s, "xll",
            Sub(Val(s.xul), Mul(Mul(SinDeg(theta(s)), h), lm))),
        "yll", Sub(Val(s.yul), Mul(Mul(CosDeg(theta(s)), h), lm)))

\* set_origin once the corner origin_loc names is stored: reading
\* length_multiplier may raise, else the other corner is derived; _reset()
set_origin_derive(s) ==
    IF length_multiplier_raises(s) # ""
    THEN Raise(s, length_multiplier_raises(s))
    ELSE IF s.origin_loc = "ll"
    THEN Ret(_reset(derive_ul(s, yedge(s)[1], Val(length_multiplier(s)))), None)
    ELSE Ret(_reset(derive_ll(s, yedge(s)[1], Val(length_multiplier(s)))), None)

\* a set_origin that always takes the lower-left corner as given
set_origin_from_ll(s, xul, yul, xll, yll) ==
    IF length_multiplier_raises(s) # ""
    THEN Raise(s, length_multiplier_raises(s))
    ELSE Ret(_reset(derive_ul(
                setattr_corner(setattr_corner(s, "xll", OrZero(xll)),
                               "yll", OrZero(yll)),
                yedge(s)[1], Val(length_multiplier(s)))), None)

\* set_origin(xul, yul, xll, yll): the arguments are None or numbers
set_origin(s, xul, yul, xll, yll) ==
    IF s.origin_loc = "ll"
    THEN set_origin_derive(
            setattr_corner(setattr_corner(s, "xll", OrZero(xll)),
                           "yll", OrZero(yll)))
    ELSE IF s.origin_loc = "ul"
    THEN set_origin_derive(
            setattr_corner(setattr_corner(s, "xul", OrZero(xul)),
                           "yul", OrZero(yul)))
    ELSE Ret(_reset(s), None)

\* set_origin(xul=self.xul, yul=self.yul, xll=self.xll, yll=self.yll)
set_origin_self(s) == set_origin(s, s.xul, s.yul, s.xll, s.yll)

\* the end of __setattr__ after a call that may have raised: _reset()
then_reset(r) == IF r.exc # "" THEN r ELSE Ret(_reset(r.s), None)

\* __setattr__(key, value).  length_multiplier is a read-only property of
\* the class, so storing it through object.__setattr__ raises before
\* set_origin and _reset are reached.
setattr(s, key, value) ==
    CASE key \in {"delr", "delc"} -> Ret(_reset([s EXCEPT ![key] = value]), None)
      [] key \in {"xul", "yul", "xll", "yll"} ->
            Ret(setattr_corner(s, key, value), None)
      [] key = "length_multiplier" -> Raise(s, "AttributeError")
      [] key = "rotation" ->
            then_reset(set_origin_self([s EXCEPT !.rotation = value]))
      [] key = "lenuni" -> Ret(_reset([s EXCEPT !.lenuni = value]), None)
      [] key = "units" ->
            IF Lower(value) \in supported_units
            THEN Ret(_reset([s EXCEPT !._units = Some(Lower(value))]), None)
            ELSE Raise(s, "AssertionError")
      [] key = "proj4_str" ->
            Ret(_reset([s EXCEPT !._proj4_str = value, !._units = None,
                                 !._epsg = None]), None)

\* reset(**kwargs) with one keyword
reset(s, key, value) == setattr(s, key, value)

\* rotate(x, y, theta, xorigin, yorigin), theta in degrees: a point <<x, y>>
rotate(x, y, th, xorigin, yorigin) ==
    <<Sub(Add(xorigin, Mul(CosDeg(th), Sub(x, xorigin))),
          Mul(SinDeg(th), Sub(y, yorigin))),
      Add(Add(yorigin, Mul(SinDeg(th), Sub(x, xorigin))),
          Mul(CosDeg(th), Sub(y, yorigin)))>>

\* translate, then scale, then rotate
translate_scale_rotate(t, lm, x, y) ==
    rotate(Mul(Add(x, Val(t.xll)), lm), Mul(Add(y, Val(t.yll)), lm),
           t.rotation, Val(t.xll), Val(t.yll))

\* the body of transform after its set_origin, for one point and the
\* multiplier lm: scale, translate, rotate
scale_translate_rotate(t, lm, x, y) ==
    rotate(Add(Mul(x, lm), Val(t.xll)), Add(Mul(y, lm), Val(t.yll)),
           t.rotation, Val(t.xll), Val(t.yll))

transform_point(t, x, y) ==
    scale_translate_rotate(t, Val(length_multiplier(t)), x, y)

\* transform after its set_origin returned or raised
transform_after(r, x, y) ==
    IF r.exc # "" THEN r ELSE Ret(r.s, transform_point(r.s, x, y))

\* transform without the call of set_origin
transform_without_set_origin(s, x, y) == transform_after(Ret(s, None), x, y)

\* transform(x, y) for one point
transform(s, x, y) == transform_after(set_origin_self(s), x, y)

(***************************************************************************)
(* The lazily cached derived grids.  A grid is a sequence of rows; rows    *)
(* and columns are numbered from 1 here and from 0 in the program.         *)
(***************************************************************************)
\* np.meshgrid(xs, ys): the x grid (part 1) or the y grid (part 2)
meshgrid(xs, ys, part) ==
    [i \in 1..Len(ys) |-> [j \in 1..Len(xs) |->
        IF part = 1 THEN xs[j] ELSE ys[i]]]

\* transform of np.meshgrid(xs, ys), element by element: the x or y part
\* (part 1 or 2) of the transformed grid
transform_meshgrid(t, xs, ys, part) ==
    [i \in 1..Len(ys) |-> [j \in 1..Len(xs) |->
        transform_point(t, xs[j], ys[i])[part]]]

\* _set_xygrid after the set_origin of its transform call (which empties
\* every cache): the two transformed grids are stored
set_xygrid_after(r, xs, ys) ==
    IF r.exc # "" THEN r
    ELSE Ret([r.s EXCEPT !._xgrid = Some(transform_meshgrid(r.s, xs, ys, 1)),
                         !._ygrid = Some(transform_meshgrid(r.s, xs, ys, 2))],
             None)

\* the untransformed meshgrid is stored first, through the branch of
\* __setattr__ that does not reset
_set_xygrid(s) ==
    set_xygrid_after(
        set_origin_self([s EXCEPT
            !._xgrid = Some(meshgrid(xedge(s), yedge(s), 1)),
            !._ygrid = Some(meshgrid(xedge(s), yedge(s), 2))]),
        xedge(s), yedge(s))

\* _set_xycentergrid
set_xycentergrid_after(r, xs, ys) ==
    IF r.exc # "" THEN r
    ELSE Ret([r.s EXCEPT
                !._xcentergrid = Some(transform_meshgrid(r.s, xs, ys, 1)),
                !._ycentergrid = Some(transform_meshgrid(r.s, xs, ys, 2))],
             None)

_set_xycentergrid(s) ==
    set_xycentergrid_after(
        set_origin_self([s EXCEPT
            !._xcentergrid = Some(meshgrid(xcenter(s), ycenter(s), 1)),
            !._ycentergrid = Some(meshgrid(xcenter(s), ycenter(s), 2))]),
        xcenter(s), ycenter(s))

\* "return self._<name>" after the cache was filled
cached(r, name) == IF r.exc # "" THEN r ELSE Ret(r.s, Val(r.s[name]))

\* the cached properties
xgrid(s) ==
    IF s._xgrid = None THEN cached(_set_xygrid(s), "_xgrid")
    ELSE Ret(s, Val(s._xgrid))
ygrid(s) ==
    IF s._ygrid = None THEN cached(_set_xygrid(s), "_ygrid")
    ELSE Ret(s, Val(s._ygrid))
xcentergrid(s) ==
    IF s._xcentergrid = None THEN cached(_set_xycentergrid(s), "_xcentergrid")
    ELSE Ret(s, Val(s._xcentergrid))
ycentergrid(s) ==
    IF s._ycentergrid = None THEN cached(_set_xycentergrid(s), "_ycentergrid")
    ELSE Ret(s, Val(s._ycentergrid))

\* the polygon walked the other way round
vertices_of_reversed(xg, yg, i, j) ==
    << <<xg[i + 1][j + 1], yg[i + 1][j + 1]>>,
       <<xg[i + 1][j + 2], yg[i + 1][j + 2]>>,
       <<xg[i + 2][j + 2], yg[i + 2][j + 2]>>,
       <<xg[i + 2][j + 1], yg[i + 2][j + 1]>>,
       <<xg[i + 1][j + 1], yg[i + 1][j + 1]>> >>

\* the five points of get_vertices(i, j), i and j counted from 0, given
\* the two edge grids
vertices_of(xg, yg, i, j) ==
    << <<xg[i + 1][j + 1], yg[i + 1][j + 1]>>,
       <<xg[i + 2][j + 1], yg[i + 2][j + 1]>>,
       <<xg[i + 2][j + 2], yg[i + 2][j + 2]>>,
       <<xg[i + 1][j + 2], yg[i + 1][j + 2]>>,
       <<xg[i + 1][j + 1], yg[i + 1][j + 1]>> >>

\* "xgrid, ygrid = self.xgrid, self.ygrid": ygrid read after xgrid
then_ygrid(r) == IF r.exc # "" THEN r ELSE ygrid(r.s)

\* get_vertices(i, j)
get_vertices_after(r, i, j) ==
    IF r.exc # "" THEN r
    ELSE Ret(r.s, vertices_of(Val(r.s._xgrid), Val(r.s._ygrid), i, j))

get_vertices(s, i, j) == get_vertices_after(then_ygrid(xgrid(s)), i, j)

\* _set_vertices: the polygons of all cells, row by row
set_vertices_after(r, nr, nc) ==
    IF r.exc # "" THEN r
    ELSE Ret([r.s EXCEPT !._vertices =
                Some([k \in 1..(nr * nc) |->
                        vertices_of(Val(r.s._xgrid), Val(r.s._ygrid),
                                    (k - 1) \div nc, (k - 1) % nc)])],
             None)

_set_vertices(s) == set_vertices_after(then_ygrid(xgrid(s)), nrow(s), ncol(s))

\* the vertices property
vertices(s) ==
    IF s._vertices = None THEN cached(_set_vertices(s), "_vertices")
    ELSE Ret(s, Val(s._vertices))

\* the box of the first two points only
bounding_box_of_two(p0, p1, p2, p3) ==
    <<Min2(p0[1], p1[1]), Max2(p0[1], p1[1]),
      Min2(p0[2], p1[2]), Max2(p0[2], p1[2])>>

\* <<xmin, xmax, ymin, ymax>> of four points
bounding_box(p0, p1, p2, p3) ==
    <<Min4(p0[1], p1[1], p2[1], p3[1]), Max4(p0[1], p1[1], p2[1], p3[1]),
      Min4(p0[2], p1[2], p2[2], p3[2]), Max4(p0[2], p1[2], p2[2], p3[2])>>

\* get_extent: four transform calls one after the other, on the corners
\* <<x0, y0>>, <<x1, y0>>, <<x1, y1>>, <<x0, y1>>, then min and max; r is
\* the outcome of the transform just made, p0, p1, p2 the earlier results
get_extent_4(r, p0, p1, p2) ==
    IF r.exc # "" THEN r ELSE Ret(r.s, bounding_box(p0, p1, p2, r.val))

get_extent_3(r, p0, p1, x0, y1) ==
    IF r.exc # "" THEN r
    ELSE get_extent_4(transform(r.s, x0, y1), p0, p1, r.val)

get_extent_2(r, p0, x0, x1, y1) ==
    IF r.exc # "" THEN r
    ELSE get_extent_3(transform(r.s, x1, y1), p0, r.val, x0, y1)

get_extent_1(r, x0, x1, y0, y1) ==
    IF r.exc # "" THEN r
    ELSE get_extent_2(transform(r.s, x1, y0), r.val, x0, x1, y1)

\* the first edge taken where the last one is meant
get_extent_from_first_edges(s, x0, x1, y0, y1) ==
    get_extent_1(transform(s, x0, y0), x0, x0, y0, y0)

get_extent_from(s, x0, x1, y0, y1) ==
    get_extent_1(transform(s, x0, y0), x0, x1, y0, y1)

get_extent(s) ==
    get_extent_from(s, xedge(s)[1], xedge(s)[Len(xedge(s))],
                    yedge(s)[1], yedge(s)[Len(yedge(s))])

(***************************************************************************)
(* Construction.  The arguments are a record a: delr, delc (vectors),      *)
(* lenuni, rotation (numbers), xul, yul, xll, yll, proj4_str, units,       *)
(* length_multiplier (None or a value).  epsg is left None: resolving a    *)
(* code goes to the registry collaborator.                                 *)
(***************************************************************************)
\* the origin priority set_spatialreference chooses
origin_priority(xul, yul, xll, yll) ==
    IF xul = None /\ yul = None /\ xll = None /\ yll = None THEN "ul"
    ELSE IF xll # None THEN "ll"
    ELSE "ul"

\* the end of set_spatialreference: set_origin after "self.rotation = ..."
then_set_origin(r, xul, yul, xll, yll) ==
    IF r.exc # "" THEN r ELSE set_origin(r.s, xul, yul, xll, yll)

set_spatialreference(s, xul, yul, xll, yll, rotation) ==
    IF xul # None /\ xll # None THEN Raise(s, "ValueError")
    ELSE IF yul # None /\ yll # None THEN Raise(s, "ValueError")
    ELSE then_set_origin(
            setattr([s EXCEPT !.origin_loc = origin_priority(xul, yul, xll, yll)],
                    "rotation", rotation),
            IF xul = None /\ yul = None /\ xll = None /\ yll = None
                THEN Some(I(0)) ELSE xul,
            IF xul = None /\ yul = None /\ xll = None /\ yll = None
                THEN Some(I(Sum(s.delc))) ELSE yul,
            xll, yll)

\* the origin set to zero only when both spacings sum to zero
init_corners_both_zero(a) ==
    IF /\ (Sum(a.delr) = 0 /\ Sum(a.delc) = 0)
       /\ (a.xll = None \/ a.yll = None)
    THEN [xul |-> None, yul |-> None, xll |-> Some(I(0)), yll |-> Some(I(0))]
    ELSE [xul |-> a.xul, yul |-> a.yul, xll |-> a.xll, yll |-> a.yll]

\* the corner arguments __init__ hands on: with spacings that sum to zero
\* and no complete lower-left corner, the origin is set to zero
init_corners(a) ==
    IF /\ (Sum(a.delr) = 0 \/ Sum(a.delc) = 0)
       /\ (a.xll = None \/ a.yll = None)
    THEN [xul |-> None, yul |-> None, xll |-> Some(I(0)), yll |-> Some(I(0))]
    ELSE [xul |-> a.xul, yul |-> a.yul, xll |-> a.xll, yll |-> a.yll]

\* the frame as __init__ has it when it calls set_spatialreference
init_attributes(a) ==
    _reset([ClassAttributes EXCEPT
                !.delc = a.delc, !.delr = a.delr, !.lenuni = a.lenuni,
                !._proj4_str = a.proj4_str, !._epsg = None, !._units = a.units,
                !._length_multiplier = a.length_multiplier])

init_with(s, c, rotation) ==
    set_spatialreference(s, c.xul, c.yul, c.xll, c.yll, rotation)

__init__(a) == init_with(init_attributes(a), init_corners(a), a.rotation)

\* reading the length_multiplier property
read_length_multiplier(s) ==
    IF length_multiplier_raises(s) # ""
    THEN Raise(s, length_multiplier_raises(s))
    ELSE Ret(s, length_multiplier(s))

\* reading the units property
read_units(s) ==
    IF units_raises(s) # "" THEN Raise(s, units_raises(s))
    ELSE Ret(s, units(s))

(***************************************************************************)
(* Inputs.                                                                 *)
(***************************************************************************)
Ramp(n) == [i \in 1..n |-> i]
Flat(n) == [i \in 1..n |-> 2]
\* spacing vectors with a positive sum
Spacings == {Ramp(n) : n \in 1..MaxLen} \cup {Flat(n) : n \in 1..MaxLen}
\* spacing vectors that sum to zero: the default (empty) and a zero width
Degenerate == {<<>>, <<0>>}
Rotations == {0, 90, 180, 270}
Coords == {I(0), I(5)}
Multipliers == {I(2)}

Str_plus_units_m == <<"+", "u", "n", "i", "t", "s", "=", "m">>
Str_plus_units_ft == <<"+", "u", "n", "i", "t", "s", "=", "f", "t">>
Str_plus_proj == <<"+", "p", "r", "o", "j", "=", "u", "t", "m">>
\* CRS text: with a unit marker for meters, for feet, and without a marker
Proj4Strs == {Str_plus_units_m, Str_plus_units_ft, Str_plus_proj}
UnitLabels == {"feet", "METERS"}

\* constructor arguments, all defaults
DefaultArgs ==
    [delr |-> <<>>, delc |-> <<>>, lenuni |-> 2, xul |-> None, yul |-> None,
     xll |-> None, yll |-> None, rotation |-> 0, proj4_str |-> None,
     units |-> None, length_multiplier |-> None]

\* the model-space points handed to transform: the lower-left and
\* upper-left corners, the lower-right corner, and an interior point
ModelPoints(s) ==
    {<<I(0), I(0)>>, <<I(0), I(Sum(s.delc))>>, <<I(Sum(s.delr)), I(0)>>,
     <<I(1), I(2)>>}

(***************************************************************************)
(* The state machine: one frame and the calls made on it.                  *)
(*   pc        "new" before the constructor ran, "live" once it returned,  *)
(*             "failed" when it raised                                     *)
(*   sr        the frame                                                   *)
(*   args      the arguments the constructor was called with               *)
(*   last      the last call: its name, argument, return value, exception  *)
(*   supplied  the coordinates last supplied by the caller for the corner  *)
(*             origin_loc names (history variable)                         *)
(*   nops      calls made since construction                               *)
(***************************************************************************)
VARIABLES pc, sr, args, last, supplied, nops

vars == <<pc, sr, args, last, supplied, nops>>

\* the corner origin_loc names, and the other one
AuthCorner(s) ==
    IF s.origin_loc = "ll" THEN <<s.xll, s.yll>> ELSE <<s.xul, s.yul>>
OtherCorner(s) ==
    IF s.origin_loc = "ll" THEN <<s.xul, s.yul>> ELSE <<s.xll, s.yll>>
AuthKeys(s) ==
    IF s.origin_loc = "ll" THEN <<"xll", "yll">> ELSE <<"xul", "yul">>

NoCall == [op |-> "", arg |-> None, val |-> None, exc |-> ""]

\* the state SpatialReference(**a) leaves, r being the outcome of __init__
Constructed(a, r) ==
    /\ pc = IF r.exc = "" THEN "live" ELSE "failed"
    /\ sr = r.s
    /\ args = a
    /\ last = [op |-> "__init__", arg |-> None, val |-> None, exc |-> r.exc]
    /\ supplied = AuthCorner(r.s)
    /\ nops = 0

\* sr = SpatialReference(**a)
Construct(a) ==
    /\ pc = "new"
    /\ pc' = IF __init__(a).exc = "" THEN "live" ELSE "failed"
    /\ sr' = __init__(a).s
    /\ args' = a
    /\ last' = [op |-> "__init__", arg |-> None, val |-> None,
                exc |-> __init__(a).exc]
    /\ supplied' = AuthCorner(__init__(a).s)
    /\ nops' = 0

\* a call on the live frame with outcome r
Call(op, arg, r) ==
    /\ pc = "live"
    /\ nops < MaxOps
    /\ sr' = r.s
    /\ last' = [op |-> op, arg |-> arg, val |-> r.val, exc |-> r.exc]
    /\ nops' = nops + 1
    /\ UNCHANGED <<pc, args>>

\* sr.<key> = value
Assign(key, value) ==
    /\ Call("setattr", <<key, value>>, setattr(sr, key, value))
    /\ supplied' =
        IF setattr(sr, key, value).exc # "" THEN supplied
        ELSE IF key = AuthKeys(sr)[1] THEN <<Some(value), supplied[2]>>
        ELSE IF key = AuthKeys(sr)[2] THEN <<supplied[1], Some(value)>>
        ELSE supplied

SetXul == \E v \in Coords : Assign("xul", v)
SetYul == \E v \in Coords : Assign("yul", v)
SetXll == \E v \in Coords : Assign("xll", v)
SetYll == \E v \in Coords : Assign("yll", v)
SetRotation == \E v \in Rotations : Assign("rotation", v)
SetDelr == \E v \in {<<3>>, <<1, 1>>} : Assign("delr", v)
SetDelc == \E v \in {<<3>>, <<1, 1>>} : Assign("delc", v)
SetLenuni == \E v \in 0..3 : Assign("lenuni", v)
SetUnits == \E v \in UnitLabels : Assign("units", v)
SetProj4Str == \E v \in Proj4Strs : Assign("proj4_str", Some(v))
SetLengthMultiplier == \E v \in Multipliers : Assign("length_multiplier", v)

\* sr.reset(length_multiplier=v)
ResetLengthMultiplier ==
    \E v \in Multipliers :
        /\ Call("reset", <<"length_multiplier", v>>,
                reset(sr, "length_multiplier", v))
        /\ UNCHANGED supplied

\* sr.set_origin(xul=sr.xul, yul=sr.yul, xll=sr.xll, yll=sr.yll)
SetOrigin ==
    /\ Call("set_origin", None, set_origin_self(sr))
    /\ UNCHANGED supplied

\* sr.transform(x, y)
Transform ==
    \E p \in ModelPoints(sr) :
        /\ Call("transform", p, transform(sr, p[1], p[2]))
        /\ UNCHANGED supplied

GetExtent == Call("get_extent", None, get_extent(sr)) /\ UNCHANGED supplied
GetXgrid == Call("xgrid", None, xgrid(sr)) /\ UNCHANGED supplied
GetYgrid == Call("ygrid", None, ygrid(sr)) /\ UNCHANGED supplied
GetXcentergrid ==
    Call("xcentergrid", None, xcentergrid(sr)) /\ UNCHANGED supplied
GetYcentergrid ==
    Call("ycentergrid", None, ycentergrid(sr)) /\ UNCHANGED supplied
GetVertices == Call("vertices", None, vertices(sr)) /\ UNCHANGED supplied
GetLengthMultiplier ==
    Call("length_multiplier", None, read_length_multiplier(sr))
        /\ UNCHANGED supplied
GetUnits == Call("units", None, read_units(sr)) /\ UNCHANGED supplied

(***************************************************************************)
(* Spec: the life of a frame after a successful construction.              *)
(***************************************************************************)
\* frames over a 10-wide, 3-high grid of two rows, anchored at either corner
LifeArgs ==
    {[DefaultArgs EXCEPT !.delr = <<10>>, !.delc = <<1, 2>>,
                         !.xul = c[1], !.yul = c[2], !.xll = c[3], !.yll = c[4],
                         !.length_multiplier = m] :
        c \in {<<Some(I(1)), Some(I(3)), None, None>>,
               <<None, None, Some(I(1)), Some(I(3))>>,
               <<None, None, Some(I(0)), Some(I(0))>>},
        m \in {None, Some(I(2))}}

Init == \E a \in LifeArgs : Constructed(a, __init__(a)) /\ pc = "live"

Next ==
    \/ SetXul \/ SetYul \/ SetXll \/ SetYll
    \/ SetRotation \/ SetDelr \/ SetDelc
    \/ SetLenuni \/ SetUnits \/ SetProj4Str
    \/ SetLengthMultiplier \/ ResetLengthMultiplier
    \/ SetOrigin \/ Transform \/ GetExtent
    \/ GetXgrid \/ GetYgrid \/ GetXcentergrid \/ GetYcentergrid
    \/ GetVertices

Spec == Init /\ [][Next]_vars

(***************************************************************************)
(* SpecCtor: the constructor, over all shapes of its corner arguments.     *)
(***************************************************************************)
CtorArgs ==
    {[DefaultArgs EXCEPT !.delr = dr, !.delc = dc,
                         !.xul = xu, !.yul = yu, !.xll = xl, !.yll = yl,
                         !.rotation = rot, !.length_multiplier = m] :
        dr \in Spacings \cup Degenerate, dc \in Spacings \cup Degenerate,
        xu \in {None, Some(I(1))}, yu \in {None, Some(I(5))},
        xl \in {None, Some(I(2))}, yl \in {None, Some(I(3))},
        rot \in {0, 90}, m \in {None, Some(I(2))}}

InitCtor ==
    /\ pc = "new"
    /\ sr = ClassAttributes
    /\ args = DefaultArgs
    /\ last = NoCall
    /\ supplied = <<None, None>>
    /\ nops = 0

NextCtor == \E a \in CtorArgs : Construct(a)

SpecCtor == InitCtor /\ [][NextCtor]_vars

(***************************************************************************)
(* SpecUnits: unit resolution, over frames that differ in their model      *)
(* length unit, unit label, CRS text and explicit multiplier.              *)
(***************************************************************************)
UnitArgs ==
    {[DefaultArgs EXCEPT !.delr = <<2>>, !.delc = <<1, 2>>,
                         !.xul = Some(I(1)), !.yul = Some(I(3)),
                         !.lenuni = l, !.units = u, !.proj4_str = p,
                         !.length_multiplier = m] :
        l \in 0..3, u \in {None, Some("feet"), Some("Meters")},
        p \in {None} \cup {Some(t) : t \in Proj4Strs},
        m \in {None, Some(I(2))}}

InitUnits == \E a \in UnitArgs : Constructed(a, __init__(a)) /\ pc = "live"

NextUnits ==
    \/ SetLenuni \/ SetUnits \/ SetProj4Str
    \/ GetLengthMultiplier \/ GetUnits

SpecUnits == InitUnits /\ [][NextUnits]_vars

(***************************************************************************)
(* Properties.                                                             *)
(***************************************************************************)
CacheNames == {"_xgrid", "_ygrid", "_xcentergrid", "_ycentergrid", "_vertices"}
CachesEmpty(s) == \A c \in CacheNames : s[c] = None

\* the stored corners agree: the upper-left corner is the lower-left one
\* moved by the scaled grid height along the rotated y axis
CornersAgree(s, m) ==
    /\ Val(s.xul) =
        Sub(Val(s.xll), Mul(Mul(SinDeg(s.rotation), I(Sum(s.delc))), m))
    /\ Val(s.yul) =
        Add(Val(s.yll), Mul(Mul(CosDeg(s.rotation), I(Sum(s.delc))), m))

\* C1: after construction and any assignments, a transform (which
\* recomputes the other corner) maps the model-space lower-left corner
\* (0, 0) to (xll, yll) and the model-space upper-left corner (0, sum(delc))
\* to (xul, yul), and the corner origin_loc names holds the value last
\* supplied for it
C1_AnchorConsistency ==
    (pc = "live" /\ last.op = "transform" /\ last.exc = "") =>
        /\ last.arg = <<I(0), I(0)>> =>
                last.val = <<Val(sr.xll), Val(sr.yll)>>
        /\ last.arg = <<I(0), I(Sum(sr.delc))>> =>
                last.val = <<Val(sr.xul), Val(sr.yul)>>
        /\ AuthCorner(sr) = supplied

\* a rotated frame whose upper-left model corner was transformed after an
\* assignment
C1_Witness ==
    /\ pc = "live" /\ nops = 2 /\ sr.rotation = 90
    /\ last.op = "transform" /\ last.exc = ""
    /\ last.arg = <<I(0), I(Sum(sr.delc))>>
    /\ last.val = <<Val(sr.xul), Val(sr.yul)>>
    /\ Sum(sr.delc) > 0

\* C2: assigning the length multiplier (sr.length_multiplier = v or
\* sr.reset(length_multiplier=v)) succeeds; afterwards the multiplier read
\* back is v, the other corner is recomputed with v and the caches are empty
C2_MultiplierMutation ==
    (/\ pc = "live" /\ last.op \in {"setattr", "reset"}
     /\ last.arg[1] = "length_multiplier") =>
        /\ last.exc = ""
        /\ length_multiplier(sr) = Some(last.arg[2])
        /\ CornersAgree(sr, last.arg[2])
        /\ CachesEmpty(sr)

\* C3: right after an assignment to a coordinate of the corner origin_loc
\* names, or to units, the stored corners agree for the current rotation
\* and multiplier
C3_AssignmentRecomputes ==
    (/\ pc = "live" /\ last.op = "setattr" /\ last.exc = ""
     /\ last.arg[1] \in {AuthKeys(sr)[1], AuthKeys(sr)[2], "units"}) =>
        CornersAgree(sr, Val(length_multiplier(sr)))

\* what reading the property behind a cache computes when nothing is cached
Fresh(s, c) ==
    CASE c = "_xgrid" -> xgrid(_reset(s)).val
      [] c = "_ygrid" -> ygrid(_reset(s)).val
      [] c = "_xcentergrid" -> xcentergrid(_reset(s)).val
      [] c = "_ycentergrid" -> ycentergrid(_reset(s)).val
      [] c = "_vertices" -> vertices(_reset(s)).val

CacheOf ==
    [xgrid |-> "_xgrid", ygrid |-> "_ygrid", xcentergrid |-> "_xcentergrid",
     ycentergrid |-> "_ycentergrid", vertices |-> "_vertices"]

\* C4: derived grids are never stale: whatever a cache holds is what a
\* fresh computation from the current parameters gives, every read of a
\* grid returns that, and right after an assignment all five caches are
\* empty
C4_CachesNeverStale ==
    pc = "live" =>
        /\ \A c \in CacheNames : sr[c] # None => Val(sr[c]) = Fresh(sr, c)
        /\ (last.op = "setattr" /\ last.exc = "") => CachesEmpty(sr)
        /\ (last.op \in DOMAIN CacheOf /\ last.exc = "") =>
                last.val = Fresh(sr, CacheOf[last.op])

\* the edge grid read after the frame was rotated
C4_Witness ==
    /\ pc = "live" /\ nops = 2 /\ sr.rotation = 90
    /\ last.op = "xgrid" /\ last.exc = ""
    /\ sr._xgrid = Some(last.val)
    /\ sr._xcentergrid = None

\* the lower-left corner that agrees with the corner origin_loc names
LowerLeft(s, m) ==
    IF s.origin_loc = "ll" THEN <<Val(s.xll), Val(s.yll)>>
    ELSE <<Add(Val(s.xul), Mul(Mul(SinDeg(s.rotation), I(Sum(s.delc))), m)),
           Sub(Val(s.yul), Mul(Mul(CosDeg(s.rotation), I(Sum(s.delc))), m))>>

\* the point m*<<x, y>> turned counter-clockwise by rot degrees (a
\* multiple of 90) and moved to the lower-left corner ll
ScaledTurnedMoved(ll, m, rot, x, y) ==
    CASE rot % 360 = 0 ->
            <<Add(ll[1], Mul(m, x)), Add(ll[2], Mul(m, y))>>
      [] rot % 360 = 90 ->
            <<Sub(ll[1], Mul(m, y)), Add(ll[2], Mul(m, x))>>
      [] rot % 360 = 180 ->
            <<Sub(ll[1], Mul(m, x)), Sub(ll[2], Mul(m, y))>>
      [] rot % 360 = 270 ->
            <<Add(ll[1], Mul(m, y)), Sub(ll[2], Mul(m, x))>>

\* C5: transform scales, then translates by the lower-left corner, then
\* rotates counter-clockwise about it; with rotation 0 and multiplier 1 the
\* result is (x + xll, y + yll)
C5_ScaleTranslateRotate ==
    (pc = "live" /\ last.op = "transform" /\ last.exc = "") =>
        /\ last.val =
            ScaledTurnedMoved(
                LowerLeft(sr, Val(length_multiplier(sr))),
                Val(length_multiplier(sr)), sr.rotation,
                last.arg[1], last.arg[2])
        /\ (sr.rotation = 0 /\ length_multiplier(sr) = Some(I(1))) =>
                last.val = <<Add(last.arg[1], Val(sr.xll)),
                             Add(last.arg[2], Val(sr.yll))>>

\* lower-left corner (0, 0), multiplier 1, rotation 90: (10, 0) maps to
\* (0, 10)
C5_Witness ==
    /\ pc = "live" /\ last.op = "transform" /\ last.exc = ""
    /\ sr.origin_loc = "ll" /\ sr.xll = Some(I(0)) /\ sr.yll = Some(I(0))
    /\ length_multiplier(sr) = Some(I(1)) /\ sr.rotation = 90
    /\ last.arg = <<I(10), I(0)>> /\ last.val = <<I(0), I(10)>>

NonDegenerate(a) == Sum(a.delr) # 0 /\ Sum(a.delc) # 0

\* C6: construction with non-degenerate spacings anchors the frame on the
\* corner the caller supplied: upper-left coordinates only give 'ul' with
\* those values, lower-left coordinates only give 'll' with those values (a
\* missing coordinate taken as 0), no corner gives 'ul' at (0, sum(delc));
\* the other corner is derived
C6_AnchorAsSupplied ==
    (pc = "live" /\ last.op = "__init__" /\ NonDegenerate(args)) =>
        /\ ((args.xul # None \/ args.yul # None)
                /\ args.xll = None /\ args.yll = None) =>
            /\ sr.origin_loc = "ul"
            /\ sr.xul = Some(OrZero(args.xul))
            /\ sr.yul = Some(OrZero(args.yul))
        /\ ((args.xll # None \/ args.yll # None)
                /\ args.xul = None /\ args.yul = None) =>
            /\ sr.origin_loc = "ll"
            /\ sr.xll = Some(OrZero(args.xll))
            /\ sr.yll = Some(OrZero(args.yll))
        /\ (args.xul = None /\ args.yul = None
                /\ args.xll = None /\ args.yll = None) =>
            /\ sr.origin_loc = "ul"
            /\ sr.xul = Some(I(0))
            /\ sr.yul = Some(I(Sum(args.delc)))
        /\ CornersAgree(sr, Val(length_multiplier(sr)))

\* C7: a constructor call with both xul and xll, or both yul and yll,
\* raises ValueError, whatever the spacings, and no grid is computed
C7_AmbiguousRejected ==
    (/\ pc # "new" /\ last.op = "__init__"
     /\ \/ (args.xul # None /\ args.xll # None)
        \/ (args.yul # None /\ args.yll # None)) =>
        /\ pc = "failed"
        /\ last.exc = "ValueError"
        /\ CachesEmpty(sr)

\* the constructor's degenerate case: a spacing vector sums to zero and the
\* lower-left corner is not given in full
Fallback(a) ==
    /\ (Sum(a.delr) = 0 \/ Sum(a.delc) = 0)
    /\ (a.xll = None \/ a.yll = None)

\* C8 as stated: in the degenerate case both corners end at (0, 0)
C8_BothCornersAtOrigin ==
    (pc # "new" /\ last.op = "__init__" /\ Fallback(args)) =>
        /\ pc = "live"
        /\ sr.xll = Some(I(0)) /\ sr.yll = Some(I(0))
        /\ sr.xul = Some(I(0)) /\ sr.yul = Some(I(0))

\* C8 (amended): in the degenerate case the supplied xul, yul are
\* discarded, the frame is anchored on the lower-left corner (0, 0), and
\* the upper-left corner is derived from it: (-sin(rotation) * sum(delc) * m,
\* cos(rotation) * sum(delc) * m), which is (0, 0) when delc sums to zero
C8_FallbackToLowerLeftOrigin ==
    (pc # "new" /\ last.op = "__init__" /\ Fallback(args)) =>
        /\ pc = "live"
        /\ sr.origin_loc = "ll"
        /\ sr.xll = Some(I(0)) /\ sr.yll = Some(I(0))
        /\ sr.xul = Some(Sub(I(0), Mul(Mul(SinDeg(args.rotation),
                        I(Sum(args.delc))), Val(length_multiplier(sr)))))
        /\ sr.yul = Some(Mul(Mul(CosDeg(args.rotation),
                        I(Sum(args.delc))), Val(length_multiplier(sr))))
        /\ Sum(args.delc) = 0 => (sr.xul = Some(I(0)) /\ sr.yul = Some(I(0)))

\* no column widths, rows of total height 3, an upper-left corner supplied
\* and discarded
C8_Witness ==
    /\ pc = "live" /\ last.op = "__init__"
    /\ args.delr = <<>> /\ Sum(args.delc) = 3
    /\ args.xul # None /\ args.yul # None
    /\ args.xll = None /\ args.yll = None
    /\ args.rotation = 0 /\ args.length_multiplier = None
    /\ sr.xll = Some(I(0)) /\ sr.yll = Some(I(0))
    /\ sr.xul = Some(I(0)) /\ sr.yul = Some(I(3))

\* the calls C9 speaks of: assignments and reads
IsAssignmentOrRead(c) ==
    \/ c.op = "setattr" /\ c.arg[1] # "length_multiplier"
    \/ c.op \in {"xgrid", "ygrid", "xcentergrid", "ycentergrid", "vertices",
                 "get_extent", "transform"}

\* C9 as stated: origin_loc is 'ul' or 'll', and no assignment and no read
\* changes origin_loc or the coordinates of the corner it names
C9_CornerNeverChanges ==
    [][(pc = "live" /\ IsAssignmentOrRead(last')) =>
            /\ sr.origin_loc \in {"ul", "ll"}
            /\ sr'.origin_loc = sr.origin_loc
            /\ AuthCorner(sr') = AuthCorner(sr)]_vars

\* C9 (amended): origin_loc is 'ul' or 'll'; no assignment and no read
\* changes origin_loc; the coordinates of the corner it names change only
\* by an assignment to that coordinate, which stores the value assigned; and
\* after a recompute (set_origin, transform) the other corner is the one
\* derived from it, whatever was assigned to it before
C9_CornerChangesOnlyByAssignment ==
    [][(pc = "live" /\ (IsAssignmentOrRead(last') \/ last'.op = "set_origin")) =>
            /\ sr.origin_loc \in {"ul", "ll"}
            /\ sr'.origin_loc = sr.origin_loc
            /\ \A i \in 1..2 :
                IF last'.op = "setattr" /\ last'.exc = ""
                        /\ last'.arg[1] = AuthKeys(sr)[i]
                THEN AuthCorner(sr')[i] = Some(last'.arg[2])
                ELSE AuthCorner(sr')[i] = AuthCorner(sr)[i]
            /\ (last'.op \in {"set_origin", "transform"} /\ last'.exc = "") =>
                CornersAgree(sr', Val(length_multiplier(sr')))]_vars

\* a value assigned to the lower-left corner of an upper-left anchored
\* frame: the upper-left corner is still the one the constructor was given
C9_Witness ==
    /\ pc = "live" /\ sr.origin_loc = "ul"
    /\ last.op = "setattr" /\ last.exc = ""
    /\ last.arg = <<"xll", I(5)>>
    /\ sr.xll = Some(I(5))
    /\ AuthCorner(sr) = <<args.xul, args.yul>>

\* the conversion factors C10 lists, as exact fractions
ListedMultiplier(mlu, u) ==
    CASE mlu = "feet" /\ u = "meters" -> Q(381, 1250)
      [] mlu = "meters" /\ u = "feet" -> Q(1250, 381)
      [] mlu = "centimeters" /\ u = "meters" -> Q(1, 100)
      [] mlu = "centimeters" /\ u = "feet" -> Q(25, 762)
      [] mlu = "feet" /\ u = "feet" -> I(1)
      [] mlu = "meters" /\ u = "meters" -> I(1)
      [] mlu = "undefined" -> I(1)

\* C10: reading length_multiplier gives the explicitly supplied multiplier
\* if there is one, else the listed factor for the model length unit and
\* the resolved reference unit; it is never None
C10_MultiplierResolution ==
    (pc = "live" /\ last.op = "length_multiplier") =>
        /\ last.exc = ""
        /\ last.val # None
        /\ IF args.length_multiplier # None
           THEN last.val = args.length_multiplier
           ELSE last.val =
                Some(ListedMultiplier(lenuni_text[sr.lenuni], units(sr)))

\* centimeters to feet, the reference unit taken from the CRS text
C10_Witness ==
    /\ pc = "live" /\ last.op = "length_multiplier" /\ last.exc = ""
    /\ sr.lenuni = 3 /\ sr._units = None /\ sr._length_multiplier = None
    /\ units(sr) = "feet"
    /\ last.val = Some(<<25, 762>>)

(***************************************************************************)
(* SpecCrs: unit labels and CRS texts, assigned in any order.              *)
(***************************************************************************)
Str_plus_units_usft ==
    <<"+", "u", "n", "i", "t", "s", "=", "u", "s", "-", "f", "t">>
Str_plus_to_meters ==
    <<"+", "t", "o", "_", "m", "e", "t", "e", "r", "s", ":", "0", ".", "3", "0",
      "4", "8">>
\* CRS text with each of the four unit markers, and without a marker
CrsTexts ==
    {Str_plus_units_m, Str_plus_units_ft, Str_plus_units_usft,
     Str_plus_to_meters, Str_plus_proj}

SetCrsText == \E v \in CrsTexts : Assign("proj4_str", Some(v))

CrsArgs ==
    {[DefaultArgs EXCEPT !.delr = <<2>>, !.delc = <<1, 2>>,
                         !.xul = Some(I(1)), !.yul = Some(I(3)),
                         !.units = u, !.proj4_str = p] :
        u \in {None, Some("feet"), Some("Meters")},
        p \in {None} \cup {Some(t) : t \in CrsTexts}}

InitCrs == \E a \in CrsArgs : Constructed(a, __init__(a)) /\ pc = "live"

NextCrs == SetUnits \/ SetCrsText \/ GetUnits

SpecCrs == InitCrs /\ [][NextCrs]_vars

\* the unit a CRS text names, None when it has no unit marker
MarkedUnit(text) ==
    IF Contains(<<"u", "n", "i", "t", "s", "=", "m">>, text) THEN Some("meters")
    ELSE IF \/ Contains(<<"u", "n", "i", "t", "s", "=", "f", "t">>, text)
            \/ Contains(<<"u", "n", "i", "t", "s", "=", "u", "s", "-", "f", "t">>,
                        text)
            \/ Contains(<<"t", "o", "_", "m", "e", "t", "e", "r", "s", ":", "0",
                          ".", "3", "0", "4", "8">>, text)
    THEN Some("feet")
    ELSE None

\* label first, then the unit of the CRS text, then meters
ByPrecedence(label, text) ==
    IF label # None THEN Lower(Val(label))
    ELSE IF text # None /\ MarkedUnit(Val(text)) # None
    THEN Val(MarkedUnit(Val(text)))
    ELSE "meters"

\* C11 as stated: units returns the explicit label (lower-cased) if one was
\* supplied, else the unit of the CRS text, else meters, and a label that
\* was supplied is still what units returns after a CRS text is assigned
C11_LabelWinsWhateverCrs ==
    /\ [](pc = "live" /\ last.op = "units" =>
            last.val = ByPrecedence(sr._units, sr._proj4_str))
    /\ [][(/\ pc = "live" /\ sr._units # None
           /\ last'.op = "setattr" /\ last'.arg[1] = "proj4_str") =>
                read_units(sr').val = Lower(Val(sr._units))]_vars

\* C11 (amended): units returns the explicit label held (lower-cased), else
\* the unit of the CRS text, else meters; a label supplied at construction
\* or by assigning units is held until a CRS text is assigned, which
\* discards it
C11_LabelHeldUntilCrsAssigned ==
    /\ [](pc = "live" /\ last.op = "units" =>
            /\ last.exc = ""
            /\ last.val = ByPrecedence(sr._units, sr._proj4_str))
    /\ [](pc = "live" /\ nops = 0 => sr._units = args.units)
    /\ [][pc = "live" =>
            IF last'.op = "setattr" /\ last'.exc = ""
                    /\ last'.arg[1] = "units"
            THEN sr'._units = Some(Lower(last'.arg[2]))
            ELSE IF last'.op = "setattr" /\ last'.exc = ""
                    /\ last'.arg[1] = "proj4_str"
            THEN sr'._units = None
            ELSE sr'._units = sr._units]_vars

\* the label feet read back from a frame whose CRS text says meters
C11_Witness ==
    /\ pc = "live" /\ last.op = "units" /\ last.exc = ""
    /\ sr._units = Some("feet")
    /\ sr._proj4_str = Some(Str_plus_units_m)
    /\ last.val = "feet"

(***************************************************************************)
(* SpecLabels: construction and assignment with any unit label.            *)
(***************************************************************************)
\* unit labels, one of them unsupported
AnyLabels == {"feet", "Meters", "yards"}

SetAnyUnits == \E v \in AnyLabels : Assign("units", v)

LabelArgs ==
    {[DefaultArgs EXCEPT !.delr = <<2>>, !.delc = <<1, 2>>,
                         !.xul = c[1], !.yul = c[2], !.xll = c[3], !.yll = c[4],
                         !.lenuni = l, !.units = u,
                         !.length_multiplier = m] :
        c \in {<<Some(I(1)), Some(I(3)), None, None>>,
               <<None, None, Some(I(1)), Some(I(3))>>},
        l \in 0..3, u \in {None} \cup {Some(v) : v \in AnyLabels},
        m \in {None, Some(I(2))}}

NextLabels ==
    \/ \E a \in LabelArgs : Construct(a)
    \/ SetAnyUnits \/ GetUnits \/ GetXgrid

SpecLabels == InitCtor /\ [][NextLabels]_vars

Supported(label) == Lower(label) \in {"feet", "meters"}

\* C12: the unit label a frame holds is unset or feet/meters; constructing
\* a frame with another label fails with an assertion error, for every
\* lenuni and with or without an explicit multiplier; assigning another
\* label fails with an assertion error and leaves the frame as it was
C12_UnsupportedUnitsFailFast ==
    /\ [](pc = "live" => (sr._units = None \/ Supported(Val(sr._units))))
    /\ []((/\ pc # "new" /\ last.op = "__init__"
           /\ args.units # None /\ ~Supported(Val(args.units))) =>
                (pc = "failed" /\ last.exc = "AssertionError"))
    /\ [][(/\ pc = "live" /\ last'.op = "setattr"
           /\ last'.arg[1] = "units" /\ ~Supported(last'.arg[2])) =>
                (last'.exc = "AssertionError" /\ sr' = sr)]_vars

(***************************************************************************)
(* Properties of get_extent.                                               *)
(***************************************************************************)
Le(a, b) == ~Lt(b, a)

\* where the model-space point <<x, y>> lies in the world: scaled by the
\* multiplier, turned by the rotation, moved to the lower-left corner
WorldPoint(s, x, y) ==
    ScaledTurnedMoved(LowerLeft(s, Val(length_multiplier(s))),
                      Val(length_multiplier(s)), s.rotation, x, y)

\* the four corners of the grid in the world
WorldCorners(s) ==
    {WorldPoint(s, I(x), I(y)) : x \in {0, Sum(s.delr)}, y \in {0, Sum(s.delc)}}

InBox(e, p) == Le(e[1], p[1]) /\ Le(p[1], e[2]) /\ Le(e[3], p[2]) /\ Le(p[2], e[4])

\* the points of a pair of grids
GridPoints(xg, yg) ==
    {<<xg[i][j], yg[i][j]>> : i \in DOMAIN xg, j \in DOMAIN xg[1]}

\* C13: get_extent returns <<xmin, xmax, ymin, ymax>> of the four
\* transformed grid corners; the box contains every transformed cell center
\* and every transformed cell vertex, and xmin <= xmax, ymin <= ymax
C13_ExtentContainsGrid ==
    (pc = "live" /\ last.op = "get_extent" /\ last.exc = "") =>
        /\ \A p \in WorldCorners(sr) : InBox(last.val, p)
        /\ \E p \in WorldCorners(sr) : p[1] = last.val[1]
        /\ \E p \in WorldCorners(sr) : p[1] = last.val[2]
        /\ \E p \in WorldCorners(sr) : p[2] = last.val[3]
        /\ \E p \in WorldCorners(sr) : p[2] = last.val[4]
        /\ Le(last.val[1], last.val[2]) /\ Le(last.val[3], last.val[4])
        /\ \A p \in GridPoints(Fresh(sr, "_xcentergrid"),
                               Fresh(sr, "_ycentergrid")) : InBox(last.val, p)
        /\ \A p \in GridPoints(Fresh(sr, "_xgrid"), Fresh(sr, "_ygrid")) :
                InBox(last.val, p)

\* the extent of a grid turned by 90 degrees and scaled by 2
C13_Witness ==
    /\ pc = "live" /\ last.op = "get_extent" /\ last.exc = ""
    /\ sr.rotation = 90 /\ length_multiplier(sr) = Some(I(2))
    /\ Lt(last.val[1], last.val[2]) /\ Lt(last.val[3], last.val[4])
    /\ Cardinality(GridPoints(Fresh(sr, "_xgrid"), Fresh(sr, "_ygrid"))) = 6

\* C14 as stated: with rotation 0 the extent is the raw model-space edges
\* moved by the lower-left corner
C14_ExtentIsOffsetOfEdges ==
    (pc = "live" /\ last.op = "get_extent" /\ last.exc = ""
            /\ sr.rotation = 0) =>
        last.val = <<Val(sr.xll), Add(Val(sr.xll), I(Sum(sr.delr))),
                     Val(sr.yll), Add(Val(sr.yll), I(Sum(sr.delc)))>>

\* C14 (amended): with rotation 0 the extent is the model-space edges scaled
\* by the length multiplier m and moved by the lower-left corner:
\* (xll, xll + m * sum(delr), yll, yll + m * sum(delc))
C14_ExtentIsScaledOffsetOfEdges ==
    (pc = "live" /\ last.op = "get_extent" /\ last.exc = ""
            /\ sr.rotation = 0) =>
        last.val =
            <<Val(sr.xll),
              Add(Val(sr.xll), Mul(Val(length_multiplier(sr)), I(Sum(sr.delr)))),
              Val(sr.yll),
              Add(Val(sr.yll), Mul(Val(length_multiplier(sr)), I(Sum(sr.delc))))>>

\* an unrotated 10 by 3 grid at lower-left corner (1, 3) with multiplier 2
C14_Witness ==
    /\ pc = "live" /\ last.op = "get_extent" /\ last.exc = ""
    /\ sr.rotation = 0 /\ sr.origin_loc = "ll"
    /\ length_multiplier(sr) = Some(I(2))
    /\ last.val = <<I(1), I(21), I(3), I(9)>>

(***************************************************************************)
(* SpecArrays: the model-space edge and center arrays of a frame.          *)
(***************************************************************************)
GetXedge == Call("xedge", None, Ret(sr, xedge(sr))) /\ UNCHANGED supplied
GetYedge == Call("yedge", None, Ret(sr, yedge(sr))) /\ UNCHANGED supplied
GetXcenter == Call("xcenter", None, Ret(sr, xcenter(sr))) /\ UNCHANGED supplied
GetYcenter == Call("ycenter", None, Ret(sr, ycenter(sr))) /\ UNCHANGED supplied

\* positive spacings: rising, uniform and falling
ArraySpacings == Spacings \cup {<<3, 1>>}

ArrayArgs ==
    {[DefaultArgs EXCEPT !.delr = dr, !.delc = dc,
                         !.xul = Some(I(1)), !.yul = Some(I(3))] :
        dr \in ArraySpacings, dc \in ArraySpacings}

InitArrays == \E a \in ArrayArgs : Constructed(a, __init__(a)) /\ pc = "live"

NextArrays == GetXedge \/ GetYedge \/ GetXcenter \/ GetYcenter

SpecArrays == InitArrays /\ [][NextArrays]_vars

\* the sum of the first k spacings of v
Upto(v, k) == Sum(SubSeq(v, 1, k))

\* c is the midpoint of lo and hi, strictly between them
StrictMidpoint(lo, c, hi) ==
    /\ Lt(lo, c) /\ Lt(c, hi)
    /\ Add(c, c) = Add(lo, hi)

\* C15: xedge has ncol+1 entries rising from 0 to sum(delr), yedge has
\* nrow+1 entries falling from sum(delc) to 0; every column center is the
\* midpoint of its two edges and strictly between them, and so is every row
\* center, row 0 being the top row
C15_EdgesAndCenters ==
    /\ (pc = "live" /\ last.op = "xedge") =>
        /\ Len(last.val) = Len(sr.delr) + 1
        /\ last.val[1] = I(0)
        /\ last.val[Len(last.val)] = I(Sum(sr.delr))
        /\ \A j \in 1..Len(sr.delr) : Lt(last.val[j], last.val[j + 1])
    /\ (pc = "live" /\ last.op = "yedge") =>
        /\ Len(last.val) = Len(sr.delc) + 1
        /\ last.val[1] = I(Sum(sr.delc))
        /\ last.val[Len(last.val)] = I(0)
        /\ \A i \in 1..Len(sr.delc) : Lt(last.val[i + 1], last.val[i])
    /\ (pc = "live" /\ last.op = "xcenter") =>
        /\ Len(last.val) = Len(sr.delr)
        /\ \A j \in 1..Len(sr.delr) :
            StrictMidpoint(I(Upto(sr.delr, j - 1)), last.val[j],
                           I(Upto(sr.delr, j)))
    /\ (pc = "live" /\ last.op = "ycenter") =>
        /\ Len(last.val) = Len(sr.delc)
        /\ \A i \in 1..Len(sr.delc) :
            StrictMidpoint(I(Sum(sr.delc) - Upto(sr.delc, i)), last.val[i],
                           I(Sum(sr.delc) - Upto(sr.delc, i - 1)))

\* rows of height 1 and 2: the center of the top row is 2 1/2
C15_Witness ==
    /\ pc = "live" /\ last.op = "ycenter"
    /\ sr.delc = <<1, 2>>
    /\ last.val = <<Q(5, 2), I(1)>>

(***************************************************************************)
(* get_rc: the reverse lookup from a world point to a row and column.      *)
(***************************************************************************)
\* np.abs
AbsQ(a) == IF a[1] < 0 THEN <<-a[1], a[2]>> ELSE a

\* ndarray.argmin of a one-dimensional array of numbers: the first index,
\* counted from 0, of the least entry
argmin(v) ==
    (CHOOSE k \in 1..Len(v) :
        /\ \A l \in 1..Len(v) : Le(v[k], v[l])
        /\ \A l \in 1..(k - 1) : Lt(v[k], v[l])) - 1

\* "ycentergrid[:, 0]": the first column of a grid
first_column(g) == [i \in 1..Len(g) |-> g[i][1]]

\* np.abs(v - x) for a one-dimensional array v and a scalar x
abs_diff(v, x) == [k \in 1..Len(v) |-> AbsQ(Sub(v[k], x))]

\* the ycentergrid property read after the xcentergrid property
then_ycentergrid(r) == IF r.exc # "" THEN r ELSE ycentergrid(r.s)

\* get_rc(x, y) for scalars, the two center grids read: an empty grid has
\* no row 0 to index
get_rc_scalar(r, x, y) ==
    IF r.exc # "" THEN r
    ELSE IF Len(Val(r.s._xcentergrid)) = 0 THEN Raise(r.s, "IndexError")
    ELSE IF Len(Val(r.s._xcentergrid)[1]) = 0 THEN Raise(r.s, "ValueError")
    ELSE Ret(r.s,
             <<argmin(abs_diff(first_column(Val(r.s._ycentergrid)), y)),
               argmin(abs_diff(Val(r.s._xcentergrid)[1], x))>>)

\* np.array([v] * n).transpose(): entry [j][k] is v[j]
repeated_transposed(v, n) == [j \in 1..Len(v) |-> [k \in 1..n |-> v[j]]]

\* (np.abs(m - xs)).argmin(axis=0) for a matrix m whose rows are as long
\* as xs: for every k the first row index of the least |m[j][k] - xs[k]|
argmin_axis0(m, xs) ==
    [k \in 1..Len(xs) |->
        argmin([j \in 1..Len(m) |-> AbsQ(Sub(m[j][k], xs[k]))])]

\* get_rc(x, y) for sequences x and y of equal length
get_rc_sequences(r, xs, ys) ==
    IF r.exc # "" THEN r
    ELSE IF Len(Val(r.s._xcentergrid)) = 0 THEN Raise(r.s, "IndexError")
    ELSE IF Len(Val(r.s._xcentergrid)[1]) = 0 THEN Raise(r.s, "ValueError")
    ELSE Ret(r.s,
             <<argmin_axis0(
                    repeated_transposed(first_column(Val(r.s._ycentergrid)),
                                        Len(xs)), ys),
               argmin_axis0(
                    repeated_transposed(Val(r.s._xcentergrid)[1], Len(xs)),
                    xs)>>)

\* get_rc(x, y): scalars are numbers <<n, d>>, sequences are sequences of
\* numbers
get_rc(s, x, y) == get_rc_scalar(then_ycentergrid(xcentergrid(s)), x, y)
get_rc_batch(s, xs, ys) ==
    get_rc_sequences(then_ycentergrid(xcentergrid(s)), xs, ys)

(***************************************************************************)
(* SpecCells: cell polygons and reverse lookup on two-by-two and smaller   *)
(* grids, rotated or not.                                                  *)
(***************************************************************************)
\* the cells of a frame, rows and columns counted from 0
Cells(s) == (0..(nrow(s) - 1)) \X (0..(ncol(s) - 1))

\* the world point of the unrotated frame that lies in cell c at the
\* fraction f of its width (from the left) and of its height (from the top)
PointInCell(s, m, c, f) ==
    <<Add(LowerLeft(s, m)[1],
          Mul(m, Add(I(Upto(s.delr, c[2])), Mul(f, I(s.delr[c[2] + 1]))))),
      Add(LowerLeft(s, m)[2],
          Mul(m, Sub(I(Sum(s.delc) - Upto(s.delc, c[1])),
                     Mul(f, I(s.delc[c[1] + 1])))))>>

\* query points: near the left/top and near the right/bottom of each cell
Queries(s) ==
    {PointInCell(s, Val(length_multiplier(s)), c, f) :
        c \in Cells(s), f \in {Q(1, 10), Q(9, 10)}}

\* one batch: the points at one tenth of each cell, row by row
QueryBatch(s) ==
    [k \in 1..(nrow(s) * ncol(s)) |->
        PointInCell(s, Val(length_multiplier(s)),
                    <<(k - 1) \div ncol(s), (k - 1) % ncol(s)>>, Q(1, 10))]

\* sr.get_vertices(i, j)
GetVerticesAt ==
    \E c \in Cells(sr) :
        /\ Call("get_vertices", c, get_vertices(sr, c[1], c[2]))
        /\ UNCHANGED supplied

\* sr.get_rc(x, y)
GetRc ==
    \E p \in Queries(sr) :
        /\ Call("get_rc", p, get_rc(sr, p[1], p[2]))
        /\ UNCHANGED supplied

\* sr.get_rc([x1, ..., xn], [y1, ..., yn])
GetRcBatch ==
    /\ Call("get_rc_batch", QueryBatch(sr),
            get_rc_batch(sr, [k \in DOMAIN QueryBatch(sr) |-> QueryBatch(sr)[k][1]],
                             [k \in DOMAIN QueryBatch(sr) |-> QueryBatch(sr)[k][2]]))
    /\ UNCHANGED supplied

CellArgs ==
    {[DefaultArgs EXCEPT !.delr = dr, !.delc = dc,
                         !.xul = c[1], !.yul = c[2], !.xll = c[3], !.yll = c[4],
                         !.rotation = rot, !.length_multiplier = m] :
        dr \in {<<2, 2>>, <<1, 2>>}, dc \in {<<2, 2>>, <<1, 2>>, <<3>>},
        c \in {<<Some(I(1)), Some(I(3)), None, None>>,
               <<None, None, Some(I(1)), Some(I(3))>>},
        rot \in {0, 90}, m \in {None, Some(I(2))}}

InitCells == \E a \in CellArgs : Constructed(a, __init__(a)) /\ pc = "live"

NextCells == GetVerticesAt \/ GetVertices \/ GetRc \/ GetRcBatch

SpecCells == InitCells /\ [][NextCells]_vars

\* the closed polygon of cell (i, j): upper-left, lower-left, lower-right,
\* upper-right corner, and the upper-left corner again
CellPolygon(s, i, j) ==
    << WorldPoint(s, I(Upto(s.delr, j)), I(Sum(s.delc) - Upto(s.delc, i))),
       WorldPoint(s, I(Upto(s.delr, j)), I(Sum(s.delc) - Upto(s.delc, i + 1))),
       WorldPoint(s, I(Upto(s.delr, j + 1)),
                  I(Sum(s.delc) - Upto(s.delc, i + 1))),
       WorldPoint(s, I(Upto(s.delr, j + 1)), I(Sum(s.delc) - Upto(s.delc, i))),
       WorldPoint(s, I(Upto(s.delr, j)), I(Sum(s.delc) - Upto(s.delc, i))) >>

\* C16: get_vertices(i, j) returns five points, the transforms of
\* (xedge[j], yedge[i]), (xedge[j], yedge[i+1]), (xedge[j+1], yedge[i+1]),
\* (xedge[j+1], yedge[i]) and the first again; vertices lists the polygons
\* of all cells row by row (entry i*ncol + j is get_vertices(i, j))
C16_ClosedCellPolygons ==
    /\ (pc = "live" /\ last.op = "get_vertices" /\ last.exc = "") =>
        /\ Len(last.val) = 5
        /\ last.val[1] = last.val[5]
        /\ last.val = CellPolygon(sr, last.arg[1], last.arg[2])
    /\ (pc = "live" /\ last.op = "vertices" /\ last.exc = "") =>
        /\ Len(last.val) = nrow(sr) * ncol(sr)
        /\ \A c \in Cells(sr) :
            last.val[c[1] * ncol(sr) + c[2] + 1] = CellPolygon(sr, c[1], c[2])

\* the polygon of the lower-right cell of a rotated two by two grid
C16_Witness ==
    /\ pc = "live" /\ last.op = "get_vertices" /\ last.exc = ""
    /\ last.arg = <<1, 1>> /\ sr.rotation = 90
    /\ last.val[1] = last.val[5]
    /\ Cardinality({last.val[k] : k \in 1..5}) = 4

\* the world point p lies strictly inside cell c of the unrotated frame s
StrictlyInside(s, m, p, c) ==
    /\ Lt(Add(LowerLeft(s, m)[1], Mul(m, I(Upto(s.delr, c[2])))), p[1])
    /\ Lt(p[1], Add(LowerLeft(s, m)[1], Mul(m, I(Upto(s.delr, c[2] + 1)))))
    /\ Lt(Add(LowerLeft(s, m)[2],
              Mul(m, I(Sum(s.delc) - Upto(s.delc, c[1] + 1)))), p[2])
    /\ Lt(p[2], Add(LowerLeft(s, m)[2],
                    Mul(m, I(Sum(s.delc) - Upto(s.delc, c[1])))))

\* C18: on a frame with rotation 0, get_rc of a world point lying strictly
\* inside cell (r, c) returns (r, c), whether the spacings are uniform or
\* not; the batched form returns for each point what the scalar form
\* returns for it
C18_ExactOnUnrotatedGrids ==
    /\ (pc = "live" /\ last.op = "get_rc" /\ last.exc = ""
            /\ sr.rotation = 0) =>
        \A c \in Cells(sr) :
            StrictlyInside(sr, Val(length_multiplier(sr)), last.arg, c)
                => last.val = c
    /\ (pc = "live" /\ last.op = "get_rc_batch" /\ last.exc = "") =>
        \A k \in DOMAIN last.arg :
            <<last.val[1][k], last.val[2][k]>>
                = get_rc(sr, last.arg[k][1], last.arg[k][2]).val

\* index k (from 0) is one of the entries of v nearest to x
Nearest(v, x, k) ==
    /\ k + 1 \in DOMAIN v
    /\ \A l \in DOMAIN v : Le(AbsQ(Sub(v[k + 1], x)), AbsQ(Sub(v[l], x)))

\* the unrotated world coordinates of the column centers and row centers
\* of a frame anchored at its lower-left corner
UnrotatedColumnCenters(s, m) ==
    [j \in 1..ncol(s) |-> Add(Val(s.xll), Mul(m, get_xcenter_array(s)[j]))]
UnrotatedRowCenters(s, m) ==
    [i \in 1..nrow(s) |-> Add(Val(s.yll), Mul(m, get_ycenter_array(s)[i]))]

\* C19: get_rc picks the column and the row whose unrotated center is
\* nearest to the query point, so a frame anchored at its lower-left corner
\* and the frame built alike with any other rotation answer alike
C19_LookupIgnoresRotation ==
    (pc = "live" /\ last.op = "get_rc" /\ last.exc = ""
        /\ sr.origin_loc = "ll") =>
        /\ Nearest(UnrotatedRowCenters(sr, Val(length_multiplier(sr))),
                   last.arg[2], last.val[1])
        /\ Nearest(UnrotatedColumnCenters(sr, Val(length_multiplier(sr))),
                   last.arg[1], last.val[2])
        /\ \A rot \in {0, 90} :
            get_rc(__init__([args EXCEPT !.rotation = rot]).s,
                   last.arg[1], last.arg[2]).val = last.val

(***************************************************************************)
(* SpecEq: a frame is reassigned and compared with other objects.          *)
(***************************************************************************)
\* s.__eq__(other): other is None for an object that is no
\* SpatialReference, Some(frame) for one that is
eq(s, other) ==
    IF other = None THEN FALSE
    ELSE IF Val(other).xul # s.xul THEN FALSE
    ELSE IF Val(other).yul # s.yul THEN FALSE
    ELSE IF Val(other).rotation # s.rotation THEN FALSE
    ELSE IF proj4_str(Val(other)) # proj4_str(s) THEN FALSE
    ELSE TRUE

EqArgs ==
    {[DefaultArgs EXCEPT !.delr = <<10>>, !.delc = v[1], !.lenuni = v[2],
                         !.units = v[3], !.length_multiplier = v[4],
                         !.xul = c[1], !.yul = c[2], !.xll = c[3], !.yll = c[4],
                         !.rotation = rot, !.proj4_str = crs] :
        v \in {<<<<1, 2>>, 2, None, None>>, <<<<3>>, 1, Some("feet"), Some(I(1))>>},
        c \in {<<Some(I(1)), Some(I(3)), None, None>>,
               <<None, None, Some(I(1)), Some(I(3))>>},
        rot \in {0, 90}, crs \in {None, Some(Str_plus_units_m)}}

\* sr == SpatialReference(**a)
EqualsFrame ==
    \E a \in EqArgs :
        /\ Call("__eq__", Some(a), Ret(sr, eq(sr, Some(__init__(a).s))))
        /\ UNCHANGED supplied

\* sr == "not a frame"
EqualsOther ==
    /\ Call("__eq__", None, Ret(sr, eq(sr, None)))
    /\ UNCHANGED supplied

InitEq == \E a \in EqArgs : Constructed(a, __init__(a)) /\ pc = "live"

NextEq == SetXll \/ SetRotation \/ SetProj4Str \/ EqualsFrame \/ EqualsOther

SpecEq == InitEq /\ [][NextEq]_vars

\* where the upper-left corner of a frame really is: as stored when the
\* frame is anchored there, else the world point of the model-space point
\* (0, sum(delc)) as seen from the lower-left corner
RealUpperLeft(s) ==
    IF s.origin_loc = "ul" THEN <<Val(s.xul), Val(s.yul)>>
    ELSE WorldPoint(s, I(0), I(Sum(s.delc)))

\* C17: a == b holds exactly when the upper-left corners, the rotations and
\* the CRS strings match at the time of comparison (spacings, lenuni, units
\* and multiplier play no part), and is False for a non-frame; two frames
\* whose upper-left corners really differ never compare equal
C17_EqualIffAnchorsMatch ==
    (pc = "live" /\ last.op = "__eq__") =>
        IF last.arg = None THEN last.val = FALSE
        ELSE last.val =
                (/\ RealUpperLeft(sr) = RealUpperLeft(__init__(Val(last.arg)).s)
                 /\ sr.rotation = Val(last.arg).rotation
                 /\ proj4_str(sr) = Val(last.arg).proj4_str)

(***************************************************************************)
(* The gridspec file: numbers written as text and read back.  A text is a  *)
(* sequence of one-character strings, a file the sequence of its lines     *)
(* (without the newline that readline().strip() removes).                  *)
(***************************************************************************)
Digits == <<"0", "1", "2", "3", "4", "5", "6", "7", "8", "9">>
DigitChar(d) == Digits[d + 1]
DigitValue(c) == (CHOOSE k \in 1..10 : Digits[k] = c) - 1

RECURSIVE Pow10(_)
Pow10(k) == IF k = 0 THEN 1 ELSE 10 * Pow10(k - 1)

\* the decimal digits of n >= 0
RECURSIVE decimal(_)
decimal(n) ==
    IF n < 10 THEN <<DigitChar(n)>>
    ELSE Append(decimal(n \div 10), DigitChar(n % 10))

\* the minimum field width of a format: padded with spaces on the left
rjust(t, w) == [k \in 1..(IF Len(t) < w THEN w - Len(t) ELSE 0) |-> " "] \o t

\* "{:10d}".format(n)
format_10d(n) ==
    rjust((IF n < 0 THEN <<"-">> ELSE <<>>) \o decimal(Abs(n)), 10)

\* <<floor(n * 10^k / d), remainder>>, one decimal digit at a time
RECURSIVE scaled_div(_, _, _)
scaled_div(n, d, k) ==
    IF k = 0 THEN <<n \div d, n % d>>
    ELSE <<scaled_div(n, d, k - 1)[1] * 10
               + (scaled_div(n, d, k - 1)[2] * 10) \div d,
           (scaled_div(n, d, k - 1)[2] * 10) % d>>

\* for 0 < n < d: how many places the decimal point of n/d moves to the
\* right before the first significant digit
RECURSIVE leading_zeros(_, _)
leading_zeros(n, d) ==
    IF n * 10 >= d THEN 1 ELSE 1 + leading_zeros(n * 10, d)

\* the decimal exponent of n/d > 0: 10^e <= n/d < 10^(e+1)
decimal_exponent(n, d) ==
    IF n >= d THEN Len(decimal(n \div d)) - 1 ELSE -leading_zeros(n, d)

\* the quotient p[1] with remainder p[2] of a division by d, rounded to
\* the nearest whole number, a tie to the even one
round_half_even(p, d) ==
    IF 2 * p[2] > d \/ (2 * p[2] = d /\ p[1] % 2 = 1) THEN p[1] + 1 ELSE p[1]

\* n/d > 0 with decimal exponent e, rounded to seven significant digits:
\* the whole number nearest to (n/d) * 10^(6-e)
seven_digits(n, d, e) ==
    IF e <= 6 THEN round_half_even(scaled_div(n, d, 6 - e), d)
    ELSE round_half_even(scaled_div(n, d * Pow10(e - 6), 0), d * Pow10(e - 6))

\* the text "d.ddddddE+ee" of a mantissa m of seven digits (or 0) and an
\* exponent e
mantissa_text(m, e) ==
    <<decimal(m)[1], ".">>
        \o (IF m = 0 THEN <<"0", "0", "0", "0", "0", "0">>
            ELSE SubSeq(decimal(m), 2, 7))
        \o <<"E", IF e < 0 THEN "-" ELSE "+">>
        \o (IF Abs(e) < 10 THEN <<"0">> ELSE <<>>) \o decimal(Abs(e))

\* a mantissa rounded up to 10^7 becomes 1.000000 with the next exponent
mantissa_exponent(m, e) ==
    IF m = Pow10(7) THEN mantissa_text(Pow10(6), e + 1) ELSE mantissa_text(m, e)

\* "{:15.6E}".format(q)
format_15_6E(q) ==
    rjust(IF q[1] = 0 THEN mantissa_exponent(0, 0)
          ELSE (IF q[1] < 0 THEN <<"-">> ELSE <<>>)
                \o mantissa_exponent(
                     seven_digits(Abs(q[1]), q[2],
                                  decimal_exponent(Abs(q[1]), q[2])),
                     decimal_exponent(Abs(q[1]), q[2])),
          15)

\* the positions where a run of characters other than blanks starts
run_starts(s) ==
    {i \in 1..Len(s) : s[i] # " " /\ (i = 1 \/ s[i - 1] = " ")}

\* the position where the run that starts at i ends
run_end(s, i) ==
    CHOOSE j \in i..Len(s) :
        /\ \A l \in i..j : s[l] # " "
        /\ (j = Len(s) \/ s[j + 1] = " ")

\* the k-th of a set of positions, in rising order
kth(ps, k) == CHOOSE i \in ps : Cardinality({j \in ps : j < i}) = k - 1

\* str.split(): the maximal runs of characters other than blanks, in order
split(s) ==
    [k \in 1..Cardinality(run_starts(s)) |->
        SubSeq(s, kth(run_starts(s), k), run_end(s, kth(run_starts(s), k)))]

\* the position of the first c in t, 0 when there is none
index_of(t, c) ==
    IF \E k \in 1..Len(t) : t[k] = c
    THEN CHOOSE k \in 1..Len(t) : t[k] = c /\ \A l \in 1..(k - 1) : t[l] # c
    ELSE 0

\* the number a run of digits spells
RECURSIVE digits_value(_)
digits_value(t) ==
    IF t = <<>> THEN 0
    ELSE digits_value(SubSeq(t, 1, Len(t) - 1)) * 10 + DigitValue(t[Len(t)])

without_sign(t) == IF t # <<>> /\ t[1] \in {"-", "+"} THEN Tail(t) ELSE t

\* int(t) of a well-formed text (the ValueError of a malformed one is left
\* out)
int(t) ==
    IF t[1] = "-" THEN -digits_value(Tail(t)) ELSE digits_value(without_sign(t))

\* the digits d (a whole number) with f of them behind the decimal point,
\* times 10^e
decimal_value(d, f, e) ==
    IF e - f >= 0 THEN I(d * Pow10(e - f)) ELSE Q(d, Pow10(f - e))

\* float(t) of an unsigned mantissa text m and an exponent e
float_unsigned(m, e) ==
    decimal_value(
        digits_value(SelectSeq(m, LAMBDA c : c # ".")),
        IF index_of(m, ".") = 0 THEN 0 ELSE Len(m) - index_of(m, "."),
        e)

\* float(t) of a well-formed text "[-]digits[.digits][E[+-]digits]"
float(t) ==
    Mul(IF t[1] = "-" THEN I(-1) ELSE I(1),
        IF index_of(t, "E") = 0 THEN float_unsigned(without_sign(t), 0)
        ELSE float_unsigned(without_sign(SubSeq(t, 1, index_of(t, "E") - 1)),
                            int(SubSeq(t, index_of(t, "E") + 1, Len(t)))))

\* "for r in v: f.write('{0:15.6E} '.format(r))": one line
RECURSIVE write_spacings(_)
write_spacings(v) ==
    IF v = <<>> THEN <<>>
    ELSE write_spacings(SubSeq(v, 1, Len(v) - 1))
            \o format_15_6E(I(v[Len(v)])) \o <<" ">>

\* write_gridSpec: the four lines of the file
write_gridSpec(s) ==
    Ret(s, << format_10d(nrow(s)) \o <<" ">> \o format_10d(ncol(s)),
              format_15_6E(Val(s.xul)) \o <<" ">> \o format_15_6E(Val(s.yul))
                    \o <<" ">> \o format_15_6E(I(s.rotation)),
              write_spacings(s.delr),
              write_spacings(s.delc) >>)

\* one token of a spacing line: "n*value" stands for n times the value
spacing_token(t) ==
    IF index_of(t, "*") = 0 THEN <<float(t)>>
    ELSE [k \in 1..int(SubSeq(t, 1, index_of(t, "*") - 1)) |->
            float(SubSeq(t, index_of(t, "*") + 1, Len(t)))]

\* the values of the tokens of one line
RECURSIVE spacing_tokens(_)
spacing_tokens(ts) ==
    IF ts = <<>> THEN <<>>
    ELSE spacing_token(ts[1]) \o spacing_tokens(Tail(ts))

\* "while j < n: raw = f.readline().strip().split(); ...": whole lines are
\* read from line i on until at least n values are there; v is what was
\* read so far.  At the end of the file readline returns '' for ever and
\* the loop does not end.
RECURSIVE read_spacings(_, _, _, _)
read_spacings(file, i, n, v) ==
    IF Len(v) >= n THEN [values |-> v, next |-> i, hangs |-> FALSE]
    ELSE IF i > Len(file) THEN [values |-> v, next |-> i, hangs |-> TRUE]
    ELSE read_spacings(file, i + 1, n, v \o spacing_tokens(split(file[i])))

\* a float that is a whole number, as the whole number (the spacings and
\* rotations of the model are whole numbers)
Whole(q) == q[1] \div q[2]

\* the constructor call that ends from_gridspec, with the corner passed as
\* the lower-left one
from_gridspec_as_lower_left(delr, delc, lenuni, xul, yul, rot) ==
    __init__([DefaultArgs EXCEPT
                !.delr = [k \in DOMAIN delr |-> Whole(delr[k])],
                !.delc = [k \in DOMAIN delc |-> Whole(delc[k])],
                !.lenuni = lenuni, !.xll = Some(xul), !.yll = Some(yul),
                !.rotation = Whole(rot)])

\* "cls(np.array(delr), np.array(delc), lenuni, xul=xul, yul=yul,
\* rotation=rot)"
from_gridspec_construct(delr, delc, lenuni, xul, yul, rot) ==
    __init__([DefaultArgs EXCEPT
                !.delr = [k \in DOMAIN delr |-> Whole(delr[k])],
                !.delc = [k \in DOMAIN delc |-> Whole(delc[k])],
                !.lenuni = lenuni, !.xul = Some(xul), !.yul = Some(yul),
                !.rotation = Whole(rot)])

\* from_gridspec once delr (read from line 3 on) is there
from_gridspec_spacings(file, lenuni, rd) ==
    IF rd.hangs
        \/ read_spacings(file, rd.next, int(split(file[1])[1]), <<>>).hangs
    THEN Raise(None, "does not return")
    ELSE from_gridspec_construct(
            rd.values,
            read_spacings(file, rd.next, int(split(file[1])[1]), <<>>).values,
            lenuni,
            float(split(file[2])[1]), float(split(file[2])[2]),
            float(split(file[2])[3]))

\* SpatialReference.from_gridspec(file, lenuni): the outcome carries the
\* new frame in s
from_gridspec(file, lenuni) ==
    IF Len(file) < 2 \/ Len(split(file[1])) < 2 \/ Len(split(file[2])) < 3
    THEN Raise(None, "IndexError")
    ELSE from_gridspec_spacings(
            file, lenuni,
            read_spacings(file, 3, int(split(file[1])[2]), <<>>))

(***************************************************************************)
(* SpecGridspec: frames are written to a file and the file is read back.   *)
(***************************************************************************)
\* sr.write_gridSpec(filename); the file is carried in last.val
WriteGridSpec ==
    /\ Call("write_gridSpec", None, write_gridSpec(sr))
    /\ UNCHANGED supplied

\* SpatialReference.from_gridspec(filename) on the file just written; the
\* new frame is carried in last.val
FromGridspec ==
    /\ last.op = "write_gridSpec"
    /\ Call("from_gridspec", last.val,
            [s |-> sr, val |-> from_gridspec(last.val, 0).s,
             exc |-> from_gridspec(last.val, 0).exc])
    /\ UNCHANGED supplied

GridspecArgs ==
    {[DefaultArgs EXCEPT !.delr = dr, !.delc = dc,
                         !.xul = c[1], !.yul = c[2], !.xll = c[3], !.yll = c[4],
                         !.rotation = rot, !.length_multiplier = m] :
        dr \in {<<1, 2>>, <<10>>, <<12345678>>}, dc \in {<<1, 2>>, <<3>>},
        c \in {<<Some(I(1)), Some(I(3)), None, None>>,
               <<Some(Q(5, 2)), Some(Q(1, 3)), None, None>>,
               <<None, None, Some(I(1)), Some(I(3))>>,
               <<None, None, Some(Q(-3048, 10000)), Some(I(1200))>>},
        rot \in {0, 90}, m \in {None, Some(I(2))}}

InitGridspec ==
    \E a \in GridspecArgs : Constructed(a, __init__(a)) /\ pc = "live"

NextGridspec == SetRotation \/ WriteGridSpec \/ FromGridspec

SpecGridspec == InitGridspec /\ [][NextGridspec]_vars

\* q has at most seven significant decimal digits: moved to seven digits
\* before the decimal point it is a whole number
SevenSignificant(q) ==
    \/ q[1] = 0
    \/ /\ decimal_exponent(Abs(q[1]), q[2]) <= 6
       /\ scaled_div(Abs(q[1]), q[2],
                     6 - decimal_exponent(Abs(q[1]), q[2]))[2] = 0
    \/ /\ decimal_exponent(Abs(q[1]), q[2]) > 6
       /\ q[2] = 1
       /\ q[1] % Pow10(decimal_exponent(Abs(q[1]), q[2]) - 6) = 0

\* every number write_gridSpec writes for s is representable in its format
Representable(s) ==
    /\ SevenSignificant(Val(s.xul)) /\ SevenSignificant(Val(s.yul))
    /\ SevenSignificant(I(s.rotation))
    /\ \A k \in DOMAIN s.delr : SevenSignificant(I(s.delr[k]))
    /\ \A k \in DOMAIN s.delc : SevenSignificant(I(s.delc[k]))

\* C20: reading back the file written for a frame with non-empty positive
\* spacings, whichever corner anchors it and whatever its multiplier, gives
\* a frame with the same nrow, ncol, xul, yul, rotation, delr and delc,
\* provided the written values have at most seven significant digits
C20_GridspecRoundTrip ==
    (pc = "live" /\ last.op = "from_gridspec" /\ Representable(sr)) =>
        /\ last.exc = ""
        /\ nrow(last.val) = nrow(sr) /\ ncol(last.val) = ncol(sr)
        /\ last.val.xul = sr.xul /\ last.val.yul = sr.yul
        /\ last.val.rotation = sr.rotation
        /\ last.val.delr = sr.delr /\ last.val.delc = sr.delc

\* a frame anchored at a fractional lower-left corner, with multiplier 2,
\* turned by 90 degrees, written and read back
C20_Witness ==
    /\ pc = "live" /\ last.op = "from_gridspec" /\ last.exc = ""
    /\ Representable(sr)
    /\ sr.origin_loc = "ll" /\ sr.xll = Some(Q(-3048, 10000))
    /\ sr._length_multiplier = Some(I(2)) /\ sr.rotation = 90
    /\ sr.delr = <<1, 2>> /\ sr.delc = <<1, 2>>
    /\ last.val.origin_loc = "ul" /\ last.val.xul = sr.xul
    /\ last.val.xll # sr.xll

(***************************************************************************)
(* SpatialReferenceUnstructured: the subclass for unstructured grids.  Its *)
(* __setattr__ goes straight to object.__setattr__, past the interception  *)
(* of SpatialReference.                                                    *)
(***************************************************************************)
\* the names the class SpatialReference defines with @property and no
\* setter, inherited by the subclass
ReadOnlyProperties ==
    {"proj4_str", "epsg", "units", "length_multiplier", "model_length_units",
     "bounds", "nrow", "ncol", "attribute_dict", "theta", "xedge", "yedge",
     "xgrid", "ygrid", "xcenter", "ycenter", "ycentergrid", "xcentergrid",
     "vertices"}

\* the instance before __init__ stores anything
UnstructuredAttributes ==
    [xc |-> None, yc |-> None, verts |-> None, iverts |-> None, ncpl |-> None,
     layered |-> None, lenuni |-> None, _proj4_str |-> None,
     supported_units |-> None, _units |-> None,
     xul |-> None, yul |-> None, rotation |-> None]

\* "self.<key> = value" after the outcome r: object.__setattr__ refuses a
\* property that has no setter
unstructured_setattr(r, key, value) ==
    IF r.exc # "" THEN r
    ELSE IF key \in ReadOnlyProperties THEN Raise(r.s, "AttributeError")
    ELSE Ret([r.s EXCEPT ![key] = Some(value)], None)

\* "if epsg is not None: self._proj4_str = getproj4(epsg)"
unstructured_getproj4(r, epsg) ==
    IF r.exc # "" \/ epsg = None THEN r
    ELSE unstructured_setattr(r, "_proj4_str", <<"getproj4", Val(epsg)>>)

\* an assert that fails, with its message (None when it has none)
AssertionError(s, msg) == [s |-> s, val |-> msg, exc |-> "AssertionError"]

\* the topology assertions that end __init__
unstructured_asserts(r, a) ==
    IF r.exc # "" THEN r
    ELSE IF a.layered
    THEN IF \E k \in DOMAIN a.ncpl : a.ncpl[k] # Len(a.iverts)
         THEN AssertionError(r.s, None)
         ELSE IF a.ncpl = <<>> THEN Raise(r.s, "IndexError")
         ELSE IF Len(a.xc) # a.ncpl[1] THEN AssertionError(r.s, None)
         ELSE IF Len(a.yc) # a.ncpl[1] THEN AssertionError(r.s, None)
         ELSE r
    ELSE IF Len(a.iverts) # Sum(a.ncpl)
         THEN AssertionError(r.s,
                <<"Length of iverts must equal ncpl.sum", Len(a.iverts), a.ncpl>>)
         ELSE IF Len(a.xc) # Sum(a.ncpl) THEN AssertionError(r.s, None)
         ELSE IF Len(a.yc) # Sum(a.ncpl) THEN AssertionError(r.s, None)
         ELSE r

\* the stores of __init__ up to "self.lenuni = lenuni"
unstructured_init_grid(a) ==
    unstructured_setattr(unstructured_setattr(unstructured_setattr(
    unstructured_setattr(unstructured_setattr(unstructured_setattr(
    unstructured_setattr(Ret(UnstructuredAttributes, None),
        "xc", a.xc), "yc", a.yc), "verts", a.verts), "iverts", a.iverts),
        "ncpl", a.ncpl), "layered", a.layered), "lenuni", a.lenuni)

\* from "self._proj4_str = proj4_str" to "self.length_multiplier = ..."
unstructured_init_crs(r, a) ==
    unstructured_setattr(unstructured_setattr(unstructured_setattr(
    unstructured_getproj4(
    unstructured_setattr(unstructured_setattr(r,
        "_proj4_str", a.proj4_str), "epsg", a.epsg), a.epsg),
        "supported_units", <<"feet", "meters">>), "_units", a.units),
        "length_multiplier", a.length_multiplier)

\* "set defaults"
unstructured_init_defaults(r) ==
    unstructured_setattr(unstructured_setattr(unstructured_setattr(r,
        "xul", I(0)), "yul", I(0)), "rotation", 0)

\* SpatialReferenceUnstructured.__init__
unstructured_init(a) ==
    unstructured_asserts(
        unstructured_init_defaults(
            unstructured_init_crs(unstructured_init_grid(a), a)), a)

(***************************************************************************)
(* SpecUnstructured: construction of unstructured grids whose counts agree *)
(* or not.                                                                 *)
(***************************************************************************)
\* n points, cells or vertex lists (only their number matters here)
Items(n) == [k \in 1..n |-> k]

UnstructuredArgs ==
    {[xc |-> Items(nx), yc |-> Items(ny), verts |-> Items(4),
      iverts |-> Items(ni), ncpl |-> nc, layered |-> l, lenuni |-> 1,
      proj4_str |-> Some(Str_EPSG), epsg |-> e, units |-> None,
      length_multiplier |-> I(1)] :
        nx \in 1..3, ny \in 1..3, ni \in 1..3,
        nc \in {<<1>>, <<2>>, <<3>>, <<1, 1>>, <<2, 2>>, <<2, 1>>},
        l \in BOOLEAN, e \in {None, Some(4326)}}

\* sr = SpatialReferenceUnstructured(**a); the message of a failed
\* assertion is carried in last.val
ConstructUnstructured ==
    \E a \in UnstructuredArgs :
        /\ pc = "new"
        /\ pc' = IF unstructured_init(a).exc = "" THEN "live" ELSE "failed"
        /\ sr' = unstructured_init(a).s
        /\ args' = a
        /\ last' = [op |-> "__init__", arg |-> None,
                    val |-> unstructured_init(a).val,
                    exc |-> unstructured_init(a).exc]
        /\ UNCHANGED <<supplied, nops>>

NextUnstructured == ConstructUnstructured

SpecUnstructured == InitCtor /\ [][NextUnstructured]_vars

\* the counts of the arguments agree
ConsistentCounts(a) ==
    IF a.layered
    THEN /\ \A k \in DOMAIN a.ncpl : a.ncpl[k] = Len(a.iverts)
         /\ Len(a.xc) = a.ncpl[1] /\ Len(a.yc) = a.ncpl[1]
    ELSE /\ Len(a.iverts) = Sum(a.ncpl)
         /\ Len(a.xc) = Sum(a.ncpl) /\ Len(a.yc) = Sum(a.ncpl)

\* C21: constructing an unstructured grid returns a grid when the counts
\* agree and fails with an assertion error whose message holds the
\* offending counts when they do not
C21_TopologyChecked ==
    (pc # "new" /\ last.op = "__init__") =>
        IF ConsistentCounts(args)
        THEN pc = "live" /\ last.exc = "" /\ sr.xc = Some(args.xc)
        ELSE /\ pc = "failed" /\ last.exc = "AssertionError"
             /\ last.val # None
             /\ \E k \in DOMAIN last.val : last.val[k] = args.ncpl

(***************************************************************************)
(* What transform and get_extent do to the frame they are called on.       *)
(***************************************************************************)
\* the step is a call of transform or of get_extent
IsTransformOrExtent ==
    pc = "live" /\ nops' = nops + 1 /\ last'.op \in {"transform", "get_extent"}

\* the fields of a frame that no set_origin touches
Parameters(s) ==
    <<s.delr, s.delc, s.lenuni, s._proj4_str, s._epsg, s._units,
      s._length_multiplier, s.rotation, s.origin_loc>>

\* C22 as stated: a call of transform or get_extent changes no state of
\* the frame: the stored corners, rotation, origin_loc and the five cached
\* grids are after the call what they were before it
C22_TransformChangesNoState ==
    [][IsTransformOrExtent =>
            /\ <<sr'.xul, sr'.yul, sr'.xll, sr'.yll>>
                    = <<sr.xul, sr.yul, sr.xll, sr.yll>>
            /\ sr'.rotation = sr.rotation /\ sr'.origin_loc = sr.origin_loc
            /\ \A c \in CacheNames : sr'[c] = sr[c]]_vars

\* C22 (amended): a call of transform or get_extent leaves the spacings,
\* units, multiplier, rotation, origin_loc and the corner origin_loc names
\* as they were, and the point it was given; when it returns it has
\* rewritten the other corner from that corner (a change when the stored
\* corners disagreed) and emptied the five caches
C22_TransformResetsOrigin ==
    [][IsTransformOrExtent =>
            /\ Parameters(sr') = Parameters(sr)
            /\ AuthCorner(sr') = AuthCorner(sr)
            /\ last'.exc = "" =>
                /\ CachesEmpty(sr')
                /\ CornersAgree(sr', Val(length_multiplier(sr')))
                /\ (CornersAgree(sr, Val(length_multiplier(sr)))
                        => OtherCorner(sr') = OtherCorner(sr))]_vars

\* transform on a frame anchored at its lower-left corner whose xll was
\* reassigned from 1 to 5: the stale xul = 1 has become 5
C22_Witness ==
    /\ pc = "live" /\ last.op = "transform" /\ last.exc = ""
    /\ sr.origin_loc = "ll" /\ args.xll = Some(I(1)) /\ sr.xll = Some(I(5))
    /\ sr.rotation = 0 /\ sr.xul = Some(I(5))
    /\ CachesEmpty(sr)

(***************************************************************************)
(* SpecLoader: the two loops of from_gridspec step by step, one action per *)
(* readline and per pass of the for loop over its tokens, starting when    *)
(* the header is read.  pc is the place in the method,                     *)
(* args the file, sr the local variables: pos (lines read so far), nrow,   *)
(* ncol, xul, yul, rot, raw (None between a for loop and the next          *)
(* readline), delr and delc.  The loaded frame is carried in last.val.     *)
(***************************************************************************)
\* f.readline().strip().split() with pos lines read: at the end of the
\* file readline returns '' and there are no tokens
readline_tokens(file, pos) ==
    IF pos < Len(file) THEN split(file[pos + 1]) ELSE <<>>

\* the locals once the two header lines are read
header_locals(file) ==
    [pos |-> 2,
     nrow |-> int(split(file[1])[1]), ncol |-> int(split(file[1])[2]),
     xul |-> float(split(file[2])[1]), yul |-> float(split(file[2])[2]),
     rot |-> float(split(file[2])[3]),
     raw |-> None, delr |-> <<>>, delc |-> <<>>]

\* the two header lines hold the five values
header_complete(file) ==
    Len(readline_tokens(file, 0)) >= 2 /\ Len(readline_tokens(file, 1)) >= 3

\* "while j < ncol: raw = f.readline().strip().split()", and the same in
\* the loop for delc
ReadSpacingLine ==
    /\ \/ pc = "delr" /\ Len(sr.delr) < sr.ncol
       \/ pc = "delc" /\ Len(sr.delc) < sr.nrow
    /\ sr.raw = None
    /\ sr' = [sr EXCEPT !.raw = Some(readline_tokens(args, sr.pos)),
                        !.pos = IF sr.pos < Len(args) THEN sr.pos + 1
                                ELSE sr.pos]
    /\ UNCHANGED <<pc, args, last, supplied, nops>>

\* "for r in raw: ...": every token of the line is appended, a token
\* "n*value" as n values
AppendSpacings ==
    /\ pc \in {"delr", "delc"}
    /\ sr.raw # None
    /\ sr' = [sr EXCEPT ![pc] = sr[pc] \o spacing_tokens(Val(sr.raw)),
                        !.raw = None]
    /\ UNCHANGED <<pc, args, last, supplied, nops>>

\* the loop for delr ends: j >= ncol
EndOfColumns ==
    /\ pc = "delr" /\ sr.raw = None /\ Len(sr.delr) >= sr.ncol
    /\ pc' = "delc"
    /\ UNCHANGED <<sr, args, last, supplied, nops>>

\* the loop for delc ends: f.close() and the constructor call
ConstructLoaded ==
    /\ pc = "delc" /\ sr.raw = None /\ Len(sr.delc) >= sr.nrow
    /\ pc' = IF from_gridspec_construct(sr.delr, sr.delc, 0,
                                        sr.xul, sr.yul, sr.rot).exc = ""
             THEN "done" ELSE "failed"
    /\ last' = [op |-> "from_gridspec", arg |-> args,
                val |-> from_gridspec_construct(sr.delr, sr.delc, 0,
                                                sr.xul, sr.yul, sr.rot).s,
                exc |-> from_gridspec_construct(sr.delr, sr.delc, 0,
                                                sr.xul, sr.yul, sr.rot).exc]
    /\ UNCHANGED <<sr, args, supplied, nops>>

\* the tokens "1.0", "2*1.0" and "3*2.0"
Token_1 == <<"1", ".", "0">>
Token_2x1 == <<"2", "*", "1", ".", "0">>
Token_3x2 == <<"3", "*", "2", ".", "0">>

\* spacing lines: one value, two values, a run of two, a run of three, a
\* value and a run, and a blank line
SpacingLines ==
    {Token_1, Token_1 \o <<" ">> \o Token_1, Token_2x1, Token_3x2,
     Token_1 \o <<" ">> \o Token_2x1, <<" ">>}

\* files: a header declaring nrow and ncol, the corner (1, 3) and rotation
\* 90, and up to two spacing lines; and two files cut short in the header
LoaderFiles ==
    {<<>>, <<format_10d(1) \o <<" ">> \o format_10d(1)>>}
    \cup
    {<<format_10d(nr) \o <<" ">> \o format_10d(nc),
       format_15_6E(I(1)) \o <<" ">> \o format_15_6E(I(3)) \o <<" ">>
            \o format_15_6E(I(90))>> \o body :
        nr \in 1..2, nc \in 1..3,
        body \in UNION {[1..n -> SpacingLines] : n \in 0..2}}

\* lines 481-486 have run: the file is open and nrow, ncol, xul, yul, rot
\* are read, or raw[0], raw[1] or raw[2] was not there
InitLoader ==
    /\ args \in LoaderFiles
    /\ IF header_complete(args)
       THEN pc = "delr" /\ sr = header_locals(args) /\ last = NoCall
       ELSE /\ pc = "failed" /\ sr = None
            /\ last = [op |-> "from_gridspec", arg |-> args, val |-> None,
                       exc |-> "IndexError"]
    /\ supplied = <<None, None>>
    /\ nops = 0

NextLoader ==
    ReadSpacingLine \/ AppendSpacings \/ EndOfColumns \/ ConstructLoaded

SpecLoader == InitLoader /\ [][NextLoader]_vars

\* the method is running code: it takes its next step
SpecLoaderFair == SpecLoader /\ WF_vars(NextLoader)

\* C23: the loaded frame has as many column spacings as the ncol and as
\* many row spacings as the nrow declared on line 1, whatever the layout of
\* the spacing tokens over the lines, a run n*value counting as n values
C23_ExactlyDeclaredCounts ==
    (pc = "done") =>
        /\ ncol(last.val) = sr.ncol /\ nrow(last.val) = sr.nrow
        /\ Len(sr.delr) = sr.ncol /\ Len(sr.delc) = sr.nrow

\* C24: from_gridspec comes to an end on every file, with a frame or with
\* an error
C24_LoaderTerminates == <>(pc \in {"done", "failed"})

====
